---- MODULE Spec2Model ----
(***************************************************************************)
(* The unified-diff parser of src/src/diff_parser.py as a state machine,    *)
(* with the views of its result that src/src/prompt.py and                 *)
(* src/src/reviewer.py compute, the webhook of src/src/server.py, and the   *)
(* review it starts: run_review, GitLabClient.get_mr_diff_text,            *)
(* Reviewer.review and GitLabClient.post_review.                           *)
(*                                                                         *)
(* parse_diff scans diff_text.split("\n") line by line.  One step of the   *)
(* machine is one iteration of that loop; the scanning state is the local  *)
(* state of the invocation (result.files, current_file, current_hunk,      *)
(* new_line_num, pending_status).  Lines are TLA+ strings, and the tests   *)
(* the code makes on them (startswith, slices, the two regular             *)
(* expressions, int) are computed on the characters.                       *)
(*                                                                         *)
(* Python references are indices: current_file is the position of the      *)
(* FileDiff in result.files (every FileDiff is appended when it is built),  *)
(* current_hunk is the pair <<file, hunk>> of positions of the Hunk.        *)
(***************************************************************************)
EXTENDS Naturals, Sequences, FiniteSets, TLC

VARIABLES
    diff_text,       \* the argument, as diff_text.split("\n")
    idx,             \* number of lines the loop has consumed
    files,           \* result.files
    current_file,    \* 0 (None) or the index in files of the open FileDiff
    current_hunk,    \* NoHunk (None) or <<file index, hunk index>>
    new_line_num,
    pending_status,  \* None, "added" or "deleted"
    pc,              \* "loop", "returned", or "raised" (an exception left parse_diff)
    calls,           \* the invocations of parse_diff that have returned: text and files
    other,           \* the frame of a parse_diff invocation of another thread
    webhook_secret,  \* settings.webhook_secret
    request,         \* the POST /webhook handled last: header and body
    response,        \* the answer to it
    background_tasks,  \* the run_review tasks added and not yet run
    posted,          \* the arguments of the post_review calls made by run_review
    changes,         \* the "changes" of the merge request, as the GitLab API returns them
    run,             \* the frame of run_review
    review,          \* the frame of Reviewer.review
    post,            \* the frame of GitLabClient.post_review
    trace            \* the calls made to the collaborators, in order

parserVars == <<diff_text, idx, files, current_file, current_hunk, new_line_num,
                pending_status, pc>>

pipelineVars == <<changes, run, review, post, trace>>

serverVars == <<webhook_secret, request, response, background_tasks, posted, pipelineVars>>

vars == <<parserVars, calls, other, serverVars>>

(***************************************************************************)
(* Bounds of the model.                                                    *)
(***************************************************************************)
MaxLines == 5
MaxHunkLines == 2
MaxStringLines == 3

(***************************************************************************)
(* Strings.                                                                *)
(***************************************************************************)
None == "None"
NoHunk == <<0, 0>>
BINARY_MARKER == "Binary files"
Digits == {"0", "1", "2", "3", "4", "5", "6", "7", "8", "9"}

Min(S) == CHOOSE m \in S : \A n \in S : m <= n

\* s[a-1:b] of Python for 1 <= a: the characters a..b of s, clamped to s
Slice(s, a, b) ==
    IF a > Len(s) \/ b < a THEN ""
    ELSE SubSeq(s, a, IF b > Len(s) THEN Len(s) ELSE b)

\* s[k:]
From(s, k) == Slice(s, k + 1, Len(s))

startswith(s, p) == Len(s) >= Len(p) /\ Slice(s, 1, Len(p)) = p

endswith(s, p) == Len(s) >= Len(p) /\ Slice(s, Len(s) - Len(p) + 1, Len(s)) = p

\* the position after the longest run of decimal digits of s that starts at i
DigitsEnd(s, i) ==
    CHOOSE j \in i..(Len(s) + 1) :
        /\ j = Len(s) + 1 \/ Slice(s, j, j) \notin Digits
        /\ \A k \in i..(j - 1) : Slice(s, k, k) \in Digits

DigitValue(c) ==
    CASE c = "0" -> 0 [] c = "1" -> 1 [] c = "2" -> 2 [] c = "3" -> 3
      [] c = "4" -> 4 [] c = "5" -> 5 [] c = "6" -> 6 [] c = "7" -> 7
      [] c = "8" -> 8 [] c = "9" -> 9

RECURSIVE DecimalValue(_)
DecimalValue(s) ==
    IF s = "" THEN 0
    ELSE 10 * DecimalValue(Slice(s, 1, Len(s) - 1)) + DigitValue(Slice(s, Len(s), Len(s)))

(***************************************************************************)
(* The records of the data model.                                         *)
(***************************************************************************)
Line(number, content, type) ==
    [number |-> number, content |-> content, type |-> type]

Hunk(old_start, old_count, new_start, new_count) ==
    [old_start |-> old_start, old_count |-> old_count,
     new_start |-> new_start, new_count |-> new_count, lines |-> <<>>]

FileDiff(filename, status, is_binary) ==
    [filename |-> filename, old_filename |-> None, status |-> status,
     hunks |-> <<>>, is_binary |-> is_binary]

(***************************************************************************)
(* The two regular expressions and int().                                  *)
(***************************************************************************)
\* int(str) of CPython refuses a decimal string of more than
\* sys.int_info.default_max_str_digits characters with a ValueError
MAX_STR_DIGITS == 4300

int_raises(g) == g # None /\ Len(g) > MAX_STR_DIGITS

\* int_or with the default taken for a group that reads as zero, too
int_or_ZeroIsDefault(g, default) ==
    IF g = None \/ DecimalValue(g) = 0 THEN default ELSE DecimalValue(g)

\* int(g or default): g is None or a non-empty digit string (truthy)
int_or(g, default) == IF g = None THEN default ELSE DecimalValue(g)

\* (\d+)(?:,(\d+))? matched at position i of s
NumberPair(s, i) ==
    LET e1 == DigitsEnd(s, i)
        e2 == DigitsEnd(s, e1 + 1)
    IN  IF e1 = i
        THEN [ok |-> FALSE, num |-> None, cnt |-> None, end |-> i]
        ELSE IF Slice(s, e1, e1) = "," /\ e2 > e1 + 1
        THEN [ok |-> TRUE, num |-> Slice(s, i, e1 - 1),
              cnt |-> Slice(s, e1 + 1, e2 - 1), end |-> e2]
        ELSE [ok |-> TRUE, num |-> Slice(s, i, e1 - 1), cnt |-> None, end |-> e1]

NoMatch == [matched |-> FALSE, g1 |-> None, g2 |-> None, g3 |-> None, g4 |-> None]

\* re.match(r"^@@ -(\d+)(?:,(\d+))? \+(\d+)(?:,(\d+))? @@", line)
hunk_match(line) ==
    IF ~startswith(line, "@@ -") THEN NoMatch
    ELSE LET old == NumberPair(line, 5) IN
         IF ~old.ok \/ Slice(line, old.end, old.end + 1) # " +" THEN NoMatch
         ELSE LET new == NumberPair(line, old.end + 2) IN
              IF ~new.ok \/ Slice(line, new.end, new.end + 2) # " @@" THEN NoMatch
              ELSE [matched |-> TRUE, g1 |-> old.num, g2 |-> old.cnt,
                    g3 |-> new.num, g4 |-> new.cnt]

\* the positions j where " differ" follows a non-empty group that starts at i + 6
DifferAfter(line, i) ==
    {j \in (i + 7)..Len(line) : Slice(line, j, j + 6) = " differ"}

\* re.search(r"and b/(.+?) differ", line): the leftmost start, the shortest group
binary_match(line) ==
    LET starts == {i \in 1..Len(line) :
                      Slice(line, i, i + 5) = "and b/" /\ DifferAfter(line, i) # {}}
    IN  IF starts = {} THEN [matched |-> FALSE, g1 |-> None]
        ELSE LET i == Min(starts)
                 j == Min(DifferAfter(line, i))
             IN  [matched |-> TRUE, g1 |-> Slice(line, i + 6, j - 1)]

(***************************************************************************)
(* The loop body of parse_diff on the scanning state                       *)
(*   s = [files, current_file, current_hunk, new_line_num,                 *)
(*        pending_status, pc].                                             *)
(***************************************************************************)
Scan ==
    [files |-> files, current_file |-> current_file, current_hunk |-> current_hunk,
     new_line_num |-> new_line_num, pending_status |-> pending_status, pc |-> pc]

\* result.files.append(current_file) after current_file = FileDiff(...)
AppendFile(s, fd) ==
    [s EXCEPT !.files = Append(@, fd), !.current_file = Len(s.files) + 1]

\* FileBoundary with the pending status kept
FileBoundary_KeepsStatus(s) == [s EXCEPT !.current_file = 0, !.current_hunk = NoHunk]

\* "diff --git": a pure reset
FileBoundary(s) ==
    [s EXCEPT !.current_file = 0, !.current_hunk = NoHunk, !.pending_status = None]

\* "new file" / "deleted file"
StatusMarker(s, status) == [s EXCEPT !.pending_status = status]

\* BinaryLine with the is_binary flag of the new FileDiff left at its default
BinaryLine_NotFlagged(s, line) ==
    LET match == binary_match(line) IN
    IF match.matched THEN AppendFile(s, FileDiff(match.g1, "binary", FALSE)) ELSE s

\* a line that starts with BINARY_MARKER
BinaryLine(s, line) ==
    LET match == binary_match(line) IN
    IF match.matched THEN AppendFile(s, FileDiff(match.g1, "binary", TRUE)) ELSE s

\* "--- path"
OldPathLine(s, line) ==
    LET path == From(line, 4) IN
    IF s.pending_status = "deleted" /\ startswith(path, "a/")
    THEN AppendFile(s, FileDiff(From(path, 2), "deleted", FALSE))
    ELSE s

\* NewPathLine with the status left at the default of FileDiff
NewPathLine_DefaultStatus(s, line) ==
    LET path == From(line, 4)
        filename == IF startswith(path, "b/") THEN From(path, 2) ELSE path
    IN  IF path = "/dev/null" THEN s
        ELSE AppendFile(s, FileDiff(filename, "modified", FALSE))

\* "+++ path"
NewPathLine(s, line) ==
    LET path == From(line, 4)
        filename == IF startswith(path, "b/") THEN From(path, 2) ELSE path
    IN  IF path = "/dev/null" THEN s
        ELSE AppendFile(s, FileDiff(filename,
                 IF s.pending_status = None THEN "modified" ELSE s.pending_status,
                 FALSE))

\* a matched hunk header while current_file is set
HunkHeader(s, line) ==
    LET m == hunk_match(line)
        f == s.current_file
    IN  IF int_raises(m.g1) \/ int_raises(m.g2) \/ int_raises(m.g3) \/ int_raises(m.g4)
        THEN [s EXCEPT !.pc = "raised"]
        ELSE LET h == Hunk(int_or(m.g1, 0), int_or(m.g2, 1),
                           int_or(m.g3, 0), int_or(m.g4, 1))
             IN  [s EXCEPT !.files[f].hunks = Append(@, h),
                           !.current_hunk = <<f, Len(s.files[f].hunks) + 1>>,
                           !.new_line_num = h.new_start]

\* current_hunk.lines.append(Line(...))
AppendLine(s, type, content) ==
    [s EXCEPT !.files[s.current_hunk[1]].hunks[s.current_hunk[2]].lines =
                  Append(@, Line(s.new_line_num, content, type))]

\* ContentLine with the counter advanced by a delete line too
ContentLine_DeleteAdvances(s, line) ==
    IF startswith(line, "+") \/ startswith(line, "-")
    THEN [AppendLine(s, IF startswith(line, "+") THEN "add" ELSE "delete", From(line, 1))
             EXCEPT !.new_line_num = @ + 1]
    ELSE IF startswith(line, " ")
    THEN [AppendLine(s, "context", From(line, 1)) EXCEPT !.new_line_num = @ + 1]
    ELSE s

\* ContentLine with the delete Line numbered by the count of old-file lines
\* seen before it instead of the new-file counter
ContentLine_DeleteOwnCounter(s, line) ==
    IF startswith(line, "+")
    THEN [AppendLine(s, "add", From(line, 1)) EXCEPT !.new_line_num = @ + 1]
    ELSE IF startswith(line, "-")
    THEN [AppendLine([s EXCEPT !.new_line_num =
                         Len(s.files[s.current_hunk[1]].hunks[s.current_hunk[2]].lines) + 1],
                     "delete", From(line, 1))
             EXCEPT !.new_line_num = s.new_line_num]
    ELSE IF startswith(line, " ")
    THEN [AppendLine(s, "context", From(line, 1)) EXCEPT !.new_line_num = @ + 1]
    ELSE s

\* ContentLine with the hunk closed to add and context lines once it holds
\* new_count of them
ContentLine_BoundedByCounts(s, line) ==
    LET h == s.files[s.current_hunk[1]].hunks[s.current_hunk[2]]
        full == Cardinality({k \in 1..Len(h.lines) : h.lines[k].type # "delete"})
                    >= h.new_count
    IN  IF startswith(line, "+")
        THEN (IF full THEN s
              ELSE [AppendLine(s, "add", From(line, 1)) EXCEPT !.new_line_num = @ + 1])
        ELSE IF startswith(line, "-")
        THEN AppendLine(s, "delete", From(line, 1))
        ELSE IF startswith(line, " ")
        THEN (IF full THEN s
              ELSE [AppendLine(s, "context", From(line, 1)) EXCEPT !.new_line_num = @ + 1])
        ELSE s

\* a line seen while current_hunk is set
ContentLine(s, line) ==
    IF startswith(line, "+")
    THEN [AppendLine(s, "add", From(line, 1)) EXCEPT !.new_line_num = @ + 1]
    ELSE IF startswith(line, "-")
    THEN AppendLine(s, "delete", From(line, 1))
    ELSE IF startswith(line, " ")
    THEN [AppendLine(s, "context", From(line, 1)) EXCEPT !.new_line_num = @ + 1]
    ELSE s

\* LoopBody with the hunk closed by a line that starts like a hunk header and
\* is not taken as one
LoopBody_HeaderClosesHunk(s, line) ==
    IF startswith(line, "diff --git") THEN FileBoundary(s)
    ELSE IF startswith(line, "new file") THEN StatusMarker(s, "added")
    ELSE IF startswith(line, "deleted file") THEN StatusMarker(s, "deleted")
    ELSE IF startswith(line, BINARY_MARKER) THEN BinaryLine(s, line)
    ELSE IF startswith(line, "--- ") THEN OldPathLine(s, line)
    ELSE IF startswith(line, "+++ ") THEN NewPathLine(s, line)
    ELSE IF startswith(line, "index ") THEN s
    ELSE IF hunk_match(line).matched /\ s.current_file # 0 THEN HunkHeader(s, line)
    ELSE IF startswith(line, "@@") THEN [s EXCEPT !.current_hunk = NoHunk]
    ELSE IF s.current_hunk # NoHunk THEN ContentLine(s, line)
    ELSE s

\* one iteration of "for line in diff_text.split(...)": the first rule that fires
LoopBody(s, line) ==
    IF startswith(line, "diff --git") THEN FileBoundary(s)
    ELSE IF startswith(line, "new file") THEN StatusMarker(s, "added")
    ELSE IF startswith(line, "deleted file") THEN StatusMarker(s, "deleted")
    ELSE IF startswith(line, BINARY_MARKER) THEN BinaryLine(s, line)
    ELSE IF startswith(line, "--- ") THEN OldPathLine(s, line)
    ELSE IF startswith(line, "+++ ") THEN NewPathLine(s, line)
    ELSE IF startswith(line, "index ") THEN s
    ELSE IF hunk_match(line).matched /\ s.current_file # 0 THEN HunkHeader(s, line)
    ELSE IF s.current_hunk # NoHunk THEN ContentLine(s, line)
    ELSE s

(***************************************************************************)
(* The derived views of a FileDiff and of a DiffResult.                    *)
(***************************************************************************)
RECURSIVE Flatten(_)
Flatten(ss) == IF ss = <<>> THEN <<>> ELSE Head(ss) \o Flatten(Tail(ss))

\* [l for l in ls if l.type == type]
RECURSIVE OfType(_, _)
OfType(ls, type) ==
    IF ls = <<>> THEN <<>>
    ELSE (IF Head(ls).type = type THEN <<Head(ls)>> ELSE <<>>) \o OfType(Tail(ls), type)

\* [l for h in f.hunks for l in h.lines]
AllLines(f) == Flatten([k \in 1..Len(f.hunks) |-> f.hunks[k].lines])

added_lines(f) == OfType(AllLines(f), "add")
deleted_lines(f) == OfType(AllLines(f), "delete")

\* SKIP_PATTERNS: each pattern is a literal suffix anchored by $ (a filename
\* holds no line break, so $ is the end of the name)
SKIP_PATTERNS ==
    {"package-lock.json", "yarn.lock", "pnpm-lock.yaml", "poetry.lock",
     "Pipfile.lock", "go.sum", ".min.js", ".min.css", ".map", ".svg", ".ico"}

\* _should_skip with each pattern compared with the whole name
_should_skip_WholeName(filename) == filename \in SKIP_PATTERNS

_should_skip(filename) == \E q \in SKIP_PATTERNS : endswith(filename, q)

\* reviewable_files without the test of is_binary
RECURSIVE reviewable_files_KeepsBinary(_)
reviewable_files_KeepsBinary(fs) ==
    IF fs = <<>> THEN <<>>
    ELSE (IF ~_should_skip(Head(fs).filename) THEN <<Head(fs)>> ELSE <<>>)
             \o reviewable_files_KeepsBinary(Tail(fs))

\* [f for f in self.files if not f.is_binary and not _should_skip(f.filename)]
RECURSIVE reviewable_files(_)
reviewable_files(fs) ==
    IF fs = <<>> THEN <<>>
    ELSE (IF ~Head(fs).is_binary /\ ~_should_skip(Head(fs).filename)
          THEN <<Head(fs)>> ELSE <<>>)
             \o reviewable_files(Tail(fs))

\* sum(len(f.added_lines) for f in fs), and the same sum of deleted_lines
RECURSIVE total_added(_)
total_added(fs) ==
    IF fs = <<>> THEN 0 ELSE Len(added_lines(Head(fs))) + total_added(Tail(fs))

RECURSIVE total_deleted(_)
total_deleted(fs) ==
    IF fs = <<>> THEN 0 ELSE Len(deleted_lines(Head(fs))) + total_deleted(Tail(fs))

\* summary with the line totals taken over the reviewable files
summary_ReviewableOnly(fs) ==
    [total_files |-> Len(fs),
     reviewable_files |-> Len(reviewable_files(fs)),
     total_added |-> total_added(reviewable_files(fs)),
     total_deleted |-> total_deleted(reviewable_files(fs))]

\* DiffResult.summary
summary(fs) ==
    [total_files |-> Len(fs),
     reviewable_files |-> Len(reviewable_files(fs)),
     total_added |-> total_added(fs),
     total_deleted |-> total_deleted(fs)]

(***************************************************************************)
(* format_diff of src/src/prompt.py.                                       *)
(***************************************************************************)
\* str(n) of an int n >= 0: its decimal numeral
RECURSIVE str(_)
str(n) ==
    LET digit == <<"0", "1", "2", "3", "4", "5", "6", "7", "8", "9">>[(n % 10) + 1]
    IN  IF n < 10 THEN digit ELSE str(n \div 10) \o digit

\* sep.join(lines)
RECURSIVE join(_, _)
join(sep, lines) ==
    IF lines = <<>> THEN ""
    ELSE IF Len(lines) = 1 THEN Head(lines)
    ELSE Head(lines) \o sep \o join(sep, Tail(lines))

\* f"@@ -{hunk.old_start},{hunk.old_count} +{hunk.new_start},{hunk.new_count} @@"
HunkText(hunk) ==
    "@@ -" \o str(hunk.old_start) \o "," \o str(hunk.old_count)
        \o " +" \o str(hunk.new_start) \o "," \o str(hunk.new_count) \o " @@"

\* LineText with the context lines emitted as their content alone
LineText_ContextUnmarked(line) ==
    IF line.type = "add" THEN "+" \o line.content
    ELSE IF line.type = "delete" THEN "-" \o line.content
    ELSE line.content

\* the text appended for one Line
LineText(line) ==
    IF line.type = "add" THEN "+" \o line.content
    ELSE IF line.type = "delete" THEN "-" \o line.content
    ELSE " " \o line.content

\* the list lines of format_diff for the hunks hs
RECURSIVE FormatLines(_)
FormatLines(hs) ==
    IF hs = <<>> THEN <<>>
    ELSE <<HunkText(Head(hs))>>
             \o [k \in 1..Len(Head(hs).lines) |-> LineText(Head(hs).lines[k])]
             \o FormatLines(Tail(hs))

format_diff(file_diff) == join("\n", FormatLines(file_diff.hunks))

(***************************************************************************)
(* Reviewer._build_search_query of src/src/reviewer.py.                    *)
(***************************************************************************)
\* the characters str.strip() removes that a line of a split text can hold
Whitespace == {" ", "\t", "\r", "\f"}

\* "not s.strip()": s is empty or holds whitespace only
IsBlank(s) == \A i \in 1..Len(s) : Slice(s, i, i) \in Whitespace

\* [l.content for l in ls if l.content.strip()]
RECURSIVE NonBlankContents(_)
NonBlankContents(ls) ==
    IF ls = <<>> THEN <<>>
    ELSE (IF IsBlank(Head(ls).content) THEN <<>> ELSE <<Head(ls).content>>)
             \o NonBlankContents(Tail(ls))

\* the number of characters a query keeps
QUERY_LIMIT == 500

\* _build_search_query without the cut
_build_search_query_Uncut(file_diff) ==
    LET added == NonBlankContents(added_lines(file_diff))
    IN  join("\n", IF added = <<>> THEN NonBlankContents(deleted_lines(file_diff))
                   ELSE added)

_build_search_query(file_diff) ==
    LET added == NonBlankContents(added_lines(file_diff))
        query == join("\n", IF added = <<>>
                            THEN NonBlankContents(deleted_lines(file_diff))
                            ELSE added)
    IN  Slice(query, 1, QUERY_LIMIT)

(***************************************************************************)
(* The state machine: one invocation of parse_diff.                        *)
(***************************************************************************)
\* the texts of 1..n lines over the lines of A ("".split gives one empty line)
Texts(A, n) == UNION {[1..k -> A] : k \in 1..n}

\* the locals of parse_diff before its loop, with result.files
Locals ==
    [files |-> <<>>, current_file |-> 0, current_hunk |-> NoHunk,
     new_line_num |-> 0, pending_status |-> None, pc |-> "loop"]

\* no other thread is in parse_diff
NoFrame == [diff_text |-> <<>>, idx |-> 0, scan |-> [Locals EXCEPT !.pc = "idle"]]

\* the server has handled no request
NoRequest == [x_gitlab_token |-> None, body |-> [kind |-> "invalid"]]
NoResponse == [status_code |-> 0, status |-> None]

\* no review runs: the frames of run_review, Reviewer.review and post_review
NoTask == [project_id |-> [kind |-> "null"], mr_iid |-> [kind |-> "null"]]
NoRun == [pc |-> "idle", task |-> NoTask, diff_text |-> "", comments |-> <<>>]
NoReview ==
    [pc |-> "idle", files |-> <<>>, queue |-> <<>>, i |-> 0, comments |-> <<>>,
     all_comments |-> <<>>]
NoResult == [posted_inline |-> 0, posted_summary |-> FALSE, errors |-> <<>>]
NoPost ==
    [pc |-> "idle", comments |-> <<>>, i |-> 0, sha_info |-> None,
     result |-> NoResult, posts |-> <<>>]

PipelineIdle ==
    /\ changes = <<>>
    /\ run = NoRun
    /\ review = NoReview
    /\ post = NoPost
    /\ trace = <<>>

ServerIdle ==
    /\ webhook_secret = ""
    /\ request = NoRequest
    /\ response = NoResponse
    /\ background_tasks = <<>>
    /\ posted = <<>>
    /\ PipelineIdle

InitOn(texts) ==
    /\ diff_text \in texts
    /\ idx = 0
    /\ files = <<>>
    /\ current_file = 0
    /\ current_hunk = NoHunk
    /\ new_line_num = 0
    /\ pending_status = None
    /\ pc = "loop"
    /\ calls = <<>>
    /\ other = NoFrame
    /\ ServerIdle

ProcessLine ==
    /\ pc = "loop"
    /\ idx < Len(diff_text)
    /\ LET t == LoopBody(Scan, diff_text[idx + 1]) IN
           /\ files' = t.files
           /\ current_file' = t.current_file
           /\ current_hunk' = t.current_hunk
           /\ new_line_num' = t.new_line_num
           /\ pending_status' = t.pending_status
           /\ pc' = t.pc
    /\ idx' = idx + 1
    /\ UNCHANGED <<diff_text, calls, other, serverVars>>

\* "return result": the caller has the DiffResult
Return ==
    /\ pc = "loop"
    /\ idx = Len(diff_text)
    /\ pc' = "returned"
    /\ calls' = Append(calls, [diff_text |-> diff_text, files |-> files])
    /\ UNCHANGED <<diff_text, idx, files, current_file, current_hunk,
                   new_line_num, pending_status, other, serverVars>>

Next == ProcessLine \/ Return

\* texts of hunks: headers, content lines, and the lines that open a file
HunkAlphabet ==
    {"diff --git a/x b/x", "+++ b/x", "@@ -1,2 +3,4 @@", "@@ -5 +7 @@ def f():",
     "+a", "-b", " c"}

Init == InitOn(Texts(HunkAlphabet, MaxLines))

Spec == Init /\ [][Next]_vars

(***************************************************************************)
(* Hunk line numbering.                                                    *)
(***************************************************************************)
\* the add and context lines of ls, in order
RECURSIVE NewSide(_)
NewSide(ls) ==
    IF ls = <<>> THEN <<>>
    ELSE (IF Head(ls).type \in {"add", "context"} THEN <<Head(ls)>> ELSE <<>>)
             \o NewSide(Tail(ls))

\* the positions <<file, hunk>> of the hunks of fs
HunksOf(fs) == UNION {{i} \X (1..Len(fs[i].hunks)) : i \in 1..Len(fs)}

\* C1: in every hunk of every file, at every moment of the scan, the numbers
\* of the add and context lines, in order, are new_start, new_start + 1, ...:
\* the counter restarts at each hunk header and no earlier hunk, file
\* boundary or delete line shifts it.
C1_HunkNumbering ==
    \A p \in HunksOf(files) :
        LET h == files[p[1]].hunks[p[2]]
            ls == NewSide(h.lines)
        IN  \A k \in 1..Len(ls) : ls[k].number = h.new_start + (k - 1)

\* a hunk with two numbered lines and a delete line before its last line
C1_Witness ==
    \E p \in HunksOf(files) :
        LET ls == files[p[1]].hunks[p[2]].lines
        IN  /\ Len(NewSide(ls)) >= 2
            /\ \E k \in 1..Len(ls) : ls[k].type = "delete" /\ k < Len(ls)

(***************************************************************************)
(* Binary files.                                                           *)
(***************************************************************************)
\* texts of binary markers, with the lines that can follow one
BinaryAlphabet ==
    {"diff --git a/x.png b/x.png",
     "Binary files a/x.png and b/x.png differ",
     "Binary files a/x.png and /dev/null differ",
     "Binary files /dev/null and b/we differ.txt differ",
     "+++ b/x", "@@ -1 +1 @@"}

InitBinary == InitOn(Texts(BinaryAlphabet, MaxLines))

SpecBinary == InitBinary /\ [][Next]_vars

\* the loop is about to process CurrentLine
Scanning == pc = "loop" /\ idx < Len(diff_text)
CurrentLine == diff_text[idx + 1]

\* C4: at every moment of the scan of any text, a FileDiff with is_binary
\* set has no hunk.
C4_BinaryHasNoHunks ==
    \A i \in 1..Len(files) : files[i].is_binary => files[i].hunks = <<>>

\* the places <<i, j>> of line where "and b/" starts at i and " differ" starts
\* at j, with at least one character between them
Captures(line) ==
    {c \in {i \in 1..Len(line) : Slice(line, i, i + 5) = "and b/"}
             \X {j \in 1..Len(line) : Slice(line, j, j + 6) = " differ"} :
        c[2] >= c[1] + 7}

\* the text between the leftmost such "and b/" and the first " differ" after it
CapturedPath(line) ==
    LET c == CHOOSE c \in Captures(line) :
                 \A d \in Captures(line) : c[1] < d[1] \/ (c[1] = d[1] /\ c[2] <= d[2])
    IN  Slice(line, c[1] + 6, c[2] - 1)

Runs(S, n) == UNION {[1..k -> S] : k \in 1..n}

\* the decimal numeral of a count (counts of the model stay below 10)
Numeral(n) == <<"0", "1", "2", "3", "4", "5", "6", "7", "8", "9">>[n + 1]

\* how many entries of ls start with one of the prefixes
RECURSIVE CountStarting(_, _)
CountStarting(ls, prefixes) ==
    IF ls = <<>> THEN 0
    ELSE (IF \E q \in prefixes : startswith(Head(ls), q) THEN 1 ELSE 0)
             + CountStarting(Tail(ls), prefixes)

\* "@@ -os,oc +ns,nc @@" for the hunk body ls
HeaderFor(os, ns, ls) ==
    "@@ -" \o Numeral(os) \o "," \o Numeral(CountStarting(ls, {"-", " "}))
        \o " +" \o Numeral(ns) \o "," \o Numeral(CountStarting(ls, {"+", " "})) \o " @@"

\* hunk lines: a marker followed by a line of the file; the file may hold the
\* lines "++ i;" and "-- x"
AddLines == {"+a", "+++ i;"}
DeleteLines == {"-a", "--- x"}
HunkLines == AddLines \cup DeleteLines \cup {" a"}

ModifiedSection(path, ls) ==
    <<"diff --git a/" \o path \o " b/" \o path, "index 1a2b..3c4d 100644",
      "--- a/" \o path, "+++ b/" \o path, HeaderFor(1, 1, ls)>> \o ls

NewFileSection(path, ls) ==
    <<"diff --git a/" \o path \o " b/" \o path, "new file mode 100644",
      "index 0000..3c4d", "--- /dev/null", "+++ b/" \o path, HeaderFor(0, 1, ls)>> \o ls

\* the form of tests/test_e2e.py: added lines only, no status marker
AddOnlySection(path, ls) ==
    <<"diff --git a/" \o path \o " b/" \o path,
      "--- a/" \o path, "+++ b/" \o path, HeaderFor(1, 1, ls)>> \o ls

DeletedSection(path, ls) ==
    <<"diff --git a/" \o path \o " b/" \o path, "deleted file mode 100644",
      "index 1a2b..0000", "--- a/" \o path, "+++ /dev/null", HeaderFor(1, 0, ls)>> \o ls

BinarySection(path) ==
    <<"diff --git a/" \o path \o " b/" \o path, "index 1a2b..3c4d 100644",
      "Binary files a/" \o path \o " and b/" \o path \o " differ">>

\* a section may stand alone, or between sections of another file
Pads == {<<>>, ModifiedSection("pad.py", <<"-a", "+a">>), BinarySection("pad.png")}

Padded(sections) == {pre \o sec \o suf : pre \in Pads, sec \in sections, suf \in Pads}

ContentSections ==
    {ModifiedSection("x.py", ls) : ls \in Runs(HunkLines, MaxHunkLines)}
    \cup {NewFileSection("x.py", ls) : ls \in Runs(AddLines, MaxHunkLines)}
    \cup {AddOnlySection("x.py", ls) : ls \in Runs(AddLines, MaxHunkLines)}
    \cup {DeletedSection("x.py", ls) : ls \in Runs(DeleteLines, MaxHunkLines)}
    \cup {BinarySection("x.png")}

InitSections == InitOn(Padded(ContentSections))

SpecSections == InitSections /\ [][Next]_vars

\* the file sections of a text: its "diff --git" lines
NumSections(text) == CountStarting(text, {"diff --git"})

\* C2: when parse_diff returns on a text of file sections, whatever lines the
\* files hold, result.files has one FileDiff per file section.
C2_OneFilePerSection ==
    pc = "returned" => Len(files) = NumSections(diff_text)

\* C5: a deleted-file section (--- a/P, +++ /dev/null) whose hunk holds only
\* '-' lines yields exactly one FileDiff: filename P, status deleted, no added
\* line, and as many deleted lines as the hunk has '-' lines.
C5_DeletedSection ==
    \A ls \in Runs(DeleteLines, MaxHunkLines) :
        (pc = "returned" /\ diff_text = DeletedSection("x.py", ls)) =>
            /\ Len(files) = 1
            /\ files[1].filename = "x.py"
            /\ files[1].status = "deleted"
            /\ added_lines(files[1]) = <<>>
            /\ Len(deleted_lines(files[1])) = Len(ls)

\* the numbers of ls are 1, 2, ..., Len(ls)
NumberedFromOne(ls) == \A k \in 1..Len(ls) : ls[k].number = k

\* C6: a single file section whose hunk starts at new line 1 and holds N '+'
\* lines yields exactly one FileDiff, with N added lines numbered 1..N and no
\* deleted line.
C6_AddedLinesSection ==
    \A ls \in Runs(AddLines, MaxHunkLines) :
        (pc = "returned"
            /\ diff_text \in {NewFileSection("x.py", ls), AddOnlySection("x.py", ls)}) =>
            /\ Len(files) = 1
            /\ Len(added_lines(files[1])) = Len(ls)
            /\ NumberedFromOne(added_lines(files[1]))
            /\ deleted_lines(files[1]) = <<>>

(***************************************************************************)
(* Renames.                                                                *)
(***************************************************************************)
\* a rename without a change of content: git writes no ---/+++ line, no hunk
PureRenameSection(old, new) ==
    <<"diff --git a/" \o old \o " b/" \o new, "similarity index 100%",
      "rename from " \o old, "rename to " \o new>>

\* a rename with a change of content
RenamedSection(old, new, ls) ==
    <<"diff --git a/" \o old \o " b/" \o new, "similarity index 90%",
      "rename from " \o old, "rename to " \o new, "index 1a2b..3c4d 100644",
      "--- a/" \o old, "+++ b/" \o new, HeaderFor(1, 1, ls)>> \o ls

PlainLines == {"+a", "-a", " a"}

RenameSections ==
    {PureRenameSection("o.py", "p.py"), PureRenameSection("p.py", "o.py")}
    \cup {RenamedSection("o.py", "p.py", ls) : ls \in Runs(PlainLines, MaxHunkLines)}
    \cup {ModifiedSection("o.py", ls) : ls \in Runs(PlainLines, MaxHunkLines)}

InitRename == InitOn(Padded(RenameSections))

SpecRename == InitRename /\ [][Next]_vars

\* C8: a section that records a pure rename (a "diff --git" line and rename
\* metadata, no hunk) yields exactly one FileDiff, with zero hunks.
C8_PureRenameYieldsFile ==
    (pc = "returned" /\ diff_text = PureRenameSection("o.py", "p.py")) =>
        Len(files) = 1 /\ files[1].hunks = <<>>

\* C9: a section with rename markers and distinct old and new paths yields a
\* FileDiff with status renamed whose old_filename is the old path; a text
\* without a rename marker yields no FileDiff with status renamed.
C9_RenameRecorded ==
    /\ \A ls \in Runs(PlainLines, MaxHunkLines) :
           (pc = "returned" /\ diff_text = RenamedSection("o.py", "p.py", ls)) =>
               /\ Len(files) = 1
               /\ files[1].status = "renamed"
               /\ files[1].old_filename = "o.py"
    /\ CountStarting(diff_text, {"rename "}) = 0 =>
           \A i \in 1..Len(files) : files[i].status # "renamed"

(***************************************************************************)
(* Any string.                                                             *)
(***************************************************************************)
\* n copies of the character c
RECURSIVE Repeat(_, _)
Repeat(c, n) ==
    IF n = 0 THEN ""
    ELSE LET half == Repeat(c, n \div 2)
         IN  IF n % 2 = 0 THEN half \o half ELSE half \o half \o c

\* a hunk header whose new_start has one digit more than int() converts
LongHeader == "@@ -1 +" \o Repeat("9", MAX_STR_DIGITS + 1) \o " @@"

StringAlphabet ==
    {"", "+++ b/x", "@@ -1,2 +3,4 @@", "@@ -x,y +z @@", LongHeader, "+a"}

InitString == InitOn(Texts(StringAlphabet, MaxStringLines))

SpecString == InitString /\ [][Next]_vars

\* C3: no exception leaves parse_diff, it returns only after the last line,
\* and the empty string yields an empty file list.
C3_NeverRaises ==
    /\ pc # "raised"
    /\ pc = "returned" => idx = Len(diff_text)
    /\ (pc = "returned" /\ diff_text = <<"">>) => files = <<>>

(***************************************************************************)
(* The reviewable files.                                                   *)
(***************************************************************************)
FilterAlphabet ==
    {"Binary files a/x.png and b/x.png differ", "+++ b/x.py", "+++ b/yarn.lock",
     "+++ b/app.min.js", "@@ -1 +1 @@", "+a", "-b"}

InitFilter == InitOn(Texts(FilterAlphabet, MaxLines))

SpecFilter == InitFilter /\ [][Next]_vars

\* a is b with some entries left out
RECURSIVE IsSubsequence(_, _)
IsSubsequence(a, b) ==
    IF a = <<>> THEN TRUE
    ELSE IF b = <<>> THEN FALSE
    ELSE IF Head(a) = Head(b) THEN IsSubsequence(Tail(a), Tail(b))
    ELSE IsSubsequence(a, Tail(b))

\* C10: reviewable_files is a subsequence of files (entries of files, in the
\* order of files, none twice) and holds no FileDiff with is_binary set.
C10_ReviewableSubsequence ==
    LET rev == reviewable_files(files)
    IN  /\ IsSubsequence(rev, files)
        /\ \A k \in 1..Len(rev) : ~rev[k].is_binary

\* files holds a binary file, a lock file and two reviewable files
C10_Witness ==
    /\ \E i \in 1..Len(files) : files[i].is_binary
    /\ \E i \in 1..Len(files) : files[i].filename = "yarn.lock"
    /\ Len(reviewable_files(files)) = 2
    /\ Len(files) = 4

(***************************************************************************)
(* The skip patterns.                                                      *)
(***************************************************************************)
\* files of lock, map and binary names, and of names close to them
SkipAlphabet ==
    {"Binary files a/x.png and b/x.png differ", "+++ b/package-lock.json",
     "+++ b/dist/app.js.map", "+++ b/lock.json", "@@ -1 +1 @@", "+a"}

InitSkip == InitOn(Texts(SkipAlphabet, MaxLines))

SpecSkip == InitSkip /\ [][Next]_vars

\* some pattern of the set matches name: the literal ends the name
MatchesSkipPattern(name) ==
    \E q \in SKIP_PATTERNS :
        Len(name) >= Len(q) /\ From(name, Len(name) - Len(q)) = q

\* the positions of the FileDiffs of fs that are not binary and match no pattern
Eligible(fs) ==
    {i \in 1..Len(fs) : ~fs[i].is_binary /\ ~MatchesSkipPattern(fs[i].filename)}

\* C11: a FileDiff of files is an entry of reviewable_files if and only if it
\* is not binary and its filename matches no skip pattern, each such FileDiff
\* being there once; a file named package-lock.json is never an entry,
\* whatever its hunks hold.
C11_ReviewableIffNotSkipped ==
    LET rev == reviewable_files(files)
    IN  /\ \A i \in 1..Len(files) :
               (\E k \in 1..Len(rev) : rev[k] = files[i]) <=> i \in Eligible(files)
        /\ Len(rev) = Cardinality(Eligible(files))
        /\ \A k \in 1..Len(rev) : rev[k].filename # "package-lock.json"

\* files holds package-lock.json with a hunk of one added line, a file whose
\* name only ends like a pattern, and a file that is reviewable
C11_Witness ==
    /\ \E i \in 1..Len(files) :
           /\ files[i].filename = "package-lock.json"
           /\ added_lines(files[i]) # <<>>
    /\ \E i \in 1..Len(files) : files[i].filename = "dist/app.js.map"
    /\ \E k \in 1..Len(reviewable_files(files)) :
           reviewable_files(files)[k].filename = "lock.json"

(***************************************************************************)
(* The summary.                                                            *)
(***************************************************************************)
\* the places <<file, hunk, line>> of the Lines of fs that have the type
LinesAt(fs, type) ==
    UNION {{<<p[1], p[2], k>> : k \in {n \in 1..Len(fs[p[1]].hunks[p[2]].lines) :
                                          fs[p[1]].hunks[p[2]].lines[n].type = type}} :
              p \in HunksOf(fs)}

\* C12: for the files of every scan state, the empty list included, summary
\* is defined and reports the number of files, the number of files that are
\* neither binary nor skipped, and the numbers of add and of delete Lines of
\* all the files, the binary and the skipped ones included.
C12_SummaryCounts ==
    /\ DOMAIN summary(files) =
           {"total_files", "reviewable_files", "total_added", "total_deleted"}
    /\ summary(files).total_files = Len(files)
    /\ summary(files).reviewable_files = Cardinality(Eligible(files))
    /\ summary(files).total_added = Cardinality(LinesAt(files, "add"))
    /\ summary(files).total_deleted = Cardinality(LinesAt(files, "delete"))

\* a skipped file with an added and a deleted line, next to a reviewable file
C12_Witness ==
    /\ \E i \in 1..Len(files) :
           /\ i \notin Eligible(files)
           /\ added_lines(files[i]) # <<>>
           /\ deleted_lines(files[i]) # <<>>
    /\ summary(files).reviewable_files = 1
    /\ summary(files).total_added >= 1
    /\ summary(files).total_deleted >= 1

(***************************************************************************)
(* Repeated invocations.                                                   *)
(***************************************************************************)
MaxCalls == 3

\* texts that end with a local set (a pending status, an open file, an open
\* hunk, an advanced counter), and texts whose result would show such a local
CallTexts ==
    {<<"new file mode 100644">>,
     <<"+++ b/x", "@@ -1 +3 @@", "+a">>,
     <<"+a">>,
     <<"@@ -1 +1 @@", "+a">>,
     <<"+++ b/y">>}

InitCalls == InitOn(CallTexts)

\* Invoke with one list shared by the DiffResults: files keeps its entries
Invoke_SharedFiles ==
    /\ pc = "returned"
    /\ Len(calls) < MaxCalls
    /\ diff_text' \in CallTexts
    /\ idx' = 0
    /\ current_file' = Locals.current_file
    /\ current_hunk' = Locals.current_hunk
    /\ new_line_num' = Locals.new_line_num
    /\ pending_status' = Locals.pending_status
    /\ pc' = Locals.pc
    /\ UNCHANGED <<files, calls, other, serverVars>>

\* the thread that holds the last result calls parse_diff again
Invoke ==
    /\ pc = "returned"
    /\ Len(calls) < MaxCalls
    /\ diff_text' \in CallTexts
    /\ idx' = 0
    /\ files' = Locals.files
    /\ current_file' = Locals.current_file
    /\ current_hunk' = Locals.current_hunk
    /\ new_line_num' = Locals.new_line_num
    /\ pending_status' = Locals.pending_status
    /\ pc' = Locals.pc
    /\ UNCHANGED <<calls, other, serverVars>>

NextCalls == ProcessLine \/ Return \/ Invoke

SpecCalls == InitCalls /\ [][NextCalls]_vars

\* C13: any two invocations that have returned, whatever invocations ran
\* before or between them, have equal files (names, statuses, hunks, lines
\* and numbers) when their texts are equal.
C13_SameTextSameResult ==
    \A i, j \in 1..Len(calls) :
        calls[i].diff_text = calls[j].diff_text => calls[i].files = calls[j].files

\* "+++ b/y" was parsed twice, after a text that left a file and a hunk open
\* and around a text that left a status pending
C13_Witness ==
    /\ Len(calls) = 3
    /\ calls[1].diff_text = <<"+++ b/y">>
    /\ calls[2].diff_text = <<"new file mode 100644">>
    /\ calls[3].diff_text = <<"+++ b/y">>
    /\ calls[3].files = <<FileDiff("y", "modified", FALSE)>>

(***************************************************************************)
(* Concurrent invocations.                                                 *)
(***************************************************************************)
\* the loop of parse_diff over lines, from the scanning state s
RECURSIVE ScanLines(_, _)
ScanLines(s, lines) ==
    IF lines = <<>> \/ s.pc # "loop" THEN s
    ELSE ScanLines(LoopBody(s, Head(lines)), Tail(lines))

\* result.files of one invocation run from its first line to its last
parse_diff(text) == ScanLines(Locals, text).files

\* two threads have entered parse_diff, each with its text and its locals
InitConcurrent ==
    /\ diff_text \in CallTexts
    /\ idx = 0
    /\ files = Locals.files
    /\ current_file = Locals.current_file
    /\ current_hunk = Locals.current_hunk
    /\ new_line_num = Locals.new_line_num
    /\ pending_status = Locals.pending_status
    /\ pc = Locals.pc
    /\ calls = <<>>
    /\ other \in {[diff_text |-> t, idx |-> 0, scan |-> Locals] : t \in CallTexts}
    /\ ServerIdle

\* OtherProcessLine with pending_status a variable of the module, one for
\* both threads
OtherProcessLine_SharedStatus ==
    /\ other.scan.pc = "loop"
    /\ other.idx < Len(other.diff_text)
    /\ LET t == LoopBody([other.scan EXCEPT !.pending_status = pending_status],
                         other.diff_text[other.idx + 1])
       IN  /\ other' = [other EXCEPT !.scan = t, !.idx = @ + 1]
           /\ pending_status' = t.pending_status
    /\ UNCHANGED <<diff_text, idx, files, current_file, current_hunk,
                   new_line_num, pc, calls, serverVars>>

\* one iteration of the loop of the other thread
OtherProcessLine ==
    /\ other.scan.pc = "loop"
    /\ other.idx < Len(other.diff_text)
    /\ other' = [other EXCEPT
                    !.scan = LoopBody(other.scan, other.diff_text[other.idx + 1]),
                    !.idx = @ + 1]
    /\ UNCHANGED <<parserVars, calls, serverVars>>

OtherReturn ==
    /\ other.scan.pc = "loop"
    /\ other.idx = Len(other.diff_text)
    /\ other' = [other EXCEPT !.scan.pc = "returned"]
    /\ calls' = Append(calls, [diff_text |-> other.diff_text,
                               files |-> other.scan.files])
    /\ UNCHANGED <<parserVars, serverVars>>

NextConcurrent == ProcessLine \/ Return \/ OtherProcessLine \/ OtherReturn

SpecConcurrent == InitConcurrent /\ [][NextConcurrent]_vars

\* C14: in every interleaving of the loop steps of two invocations, each
\* invocation's scanning state is the one its own lines give when scanned
\* alone, and each returns the files of a run alone on its text.
C14_InterleavedAsAlone ==
    /\ Scan = [ScanLines(Locals, SubSeq(diff_text, 1, idx)) EXCEPT !.pc = pc]
    /\ pc = "returned" => files = parse_diff(diff_text)
    /\ other.scan = [ScanLines(Locals, SubSeq(other.diff_text, 1, other.idx))
                        EXCEPT !.pc = other.scan.pc]
    /\ other.scan.pc = "returned" => other.scan.files = parse_diff(other.diff_text)
    /\ \A k \in 1..Len(calls) : calls[k].files = parse_diff(calls[k].diff_text)

\* both invocations are inside their loops, one with a pending status and the
\* other with a file that a pending status would have marked as added
C14_Witness ==
    /\ pc = "loop" /\ idx = 1
    /\ pending_status = "added"
    /\ other.scan.pc = "loop"
    /\ other.idx = 1 /\ Len(other.diff_text) = 3
    /\ other.scan.files = <<FileDiff("x", "modified", FALSE)>>

(***************************************************************************)
(* Delete lines.                                                           *)
(***************************************************************************)
\* the loop is about to hand a line with prefix "-" to the content rule: a
\* hunk is open and no header rule takes the line (of the header prefixes
\* only "--- " starts with "-")
DeleteContentLine ==
    /\ Scanning
    /\ current_hunk # NoHunk
    /\ startswith(CurrentLine, "-")
    /\ ~startswith(CurrentLine, "--- ")

\* the first add or context line of ls after position k, if any, has the
\* number n, and so has every delete line up to it
SharedNumber(ls, k, n) ==
    \A j \in (k + 1)..Len(ls) :
        (\A m \in (k + 1)..(j - 1) : ls[m].type = "delete") => ls[j].number = n

\* C15: a "-" content line appends to the open hunk one delete Line numbered
\* with the counter and changes nothing else, the counter included; so in
\* every hunk a delete line shares its number with the delete lines that
\* follow it and with the next add or context line, and a hunk that starts
\* with a delete line starts at new_start.
C15_DeleteKeepsCounter ==
    /\ [][DeleteContentLine =>
             /\ files' = [files EXCEPT
                    ![current_hunk[1]].hunks[current_hunk[2]].lines =
                        Append(@, Line(new_line_num, From(CurrentLine, 1), "delete"))]
             /\ new_line_num' = new_line_num
             /\ UNCHANGED <<current_file, current_hunk, pending_status, pc>>]_vars
    /\ [](\A p \in HunksOf(files) :
              LET h == files[p[1]].hunks[p[2]]
              IN  \A k \in 1..Len(h.lines) :
                      h.lines[k].type = "delete" =>
                          /\ SharedNumber(h.lines, k, h.lines[k].number)
                          /\ (k = 1 => h.lines[k].number = h.new_start))

\* a hunk that starts with two delete lines, followed by an add line
C15_Witness ==
    \E p \in HunksOf(files) :
        LET ls == files[p[1]].hunks[p[2]].lines
        IN  /\ Len(ls) = 3
            /\ ls[1].type = "delete" /\ ls[2].type = "delete" /\ ls[3].type = "add"
            /\ ls[1].number = 3 /\ ls[3].number = 3

(***************************************************************************)
(* The new-path line and the status markers.                               *)
(***************************************************************************)
StatusAlphabet ==
    {"diff --git a/x b/x", "new file mode 100644", "deleted file mode 100644",
     "+++ b/x", "+++ /dev/null", "+++ y"}

InitStatus == InitOn(Texts(StatusAlphabet, MaxLines))

SpecStatus == InitStatus /\ [][Next]_vars

\* the lines consumed so far that start with the prefix
LinesStarting(prefix) == {k \in 1..idx : startswith(diff_text[k], prefix)}

Max(S) == CHOOSE m \in S : \A n \in S : n <= m

\* the lines of the current section that precede the current line and start
\* with the prefix
InSectionStarting(prefix) ==
    {k \in LinesStarting(prefix) : k > Max(LinesStarting("diff --git"))}

\* the loop is about to process "+++ P", P other than /dev/null, in a section
NewPathInSection ==
    /\ Scanning
    /\ LinesStarting("diff --git") # {}
    /\ startswith(CurrentLine, "+++ ")
    /\ From(CurrentLine, 4) # "/dev/null"

\* P with a leading "b/" removed
StrippedPath(line) ==
    IF Slice(line, 5, 6) = "b/" THEN From(line, 6) ELSE From(line, 4)

\* the step appends exactly one FileDiff, named by the current line
AppendsNamedFile ==
    /\ Len(files') = Len(files) + 1
    /\ SubSeq(files', 1, Len(files)) = files
    /\ files'[Len(files')].filename = StrippedPath(CurrentLine)

\* C16 as stated: in a section, "+++ P" with P other than /dev/null appends
\* exactly one FileDiff named P without a leading "b/", with status added
\* when a "new file" marker precedes it in the section and modified when no
\* status marker does.
C16_AddedAfterNewFileMarker ==
    [][NewPathInSection =>
          /\ AppendsNamedFile
          /\ (InSectionStarting("new file") # {}
                 => files'[Len(files')].status = "added")
          /\ (InSectionStarting("new file") \cup InSectionStarting("deleted file") = {}
                 => files'[Len(files')].status = "modified")]_vars

\* C16 amended: the status is the one of the last status marker that
\* precedes the line in the section: added after "new file", deleted after
\* "deleted file", modified when no status marker precedes it.
C16_StatusOfLastMarker ==
    [][NewPathInSection =>
          LET new == InSectionStarting("new file")
              deleted == InSectionStarting("deleted file")
          IN  /\ AppendsNamedFile
              /\ files'[Len(files')] =
                     FileDiff(StrippedPath(CurrentLine),
                              IF new \cup deleted = {} THEN "modified"
                              ELSE IF Max(new \cup deleted) \in new THEN "added"
                              ELSE "deleted",
                              FALSE)
              /\ current_file' = Len(files')]_vars

\* "+++ b/x" was processed after a "new file" and then a "deleted file"
\* marker of its section, and "+++ y" after it with the same status
C16_Witness ==
    /\ idx = 5
    /\ diff_text = <<"diff --git a/x b/x", "new file mode 100644",
                     "deleted file mode 100644", "+++ b/x", "+++ y">>
    /\ files = <<FileDiff("x", "deleted", FALSE), FileDiff("y", "deleted", FALSE)>>

(***************************************************************************)
(* The formatted diff.                                                     *)
(***************************************************************************)
\* s.split(sep) for a separator of one character
RECURSIVE split(_, _)
split(s, sep) ==
    LET hits == {i \in 1..Len(s) : Slice(s, i, i) = sep}
    IN  IF hits = {} THEN <<s>>
        ELSE <<Slice(s, 1, Min(hits) - 1)>> \o split(From(s, Min(hits)), sep)

\* the lines of a formatted diff (the diff of a file without hunks has none)
Emitted(f) == IF f.hunks = <<>> THEN <<>> ELSE split(format_diff(f), "\n")

\* the number of lines emitted for the hunks of f before hunk k
RECURSIVE EmittedBefore(_, _)
EmittedBefore(f, k) ==
    IF k = 1 THEN 0 ELSE EmittedBefore(f, k - 1) + 1 + Len(f.hunks[k - 1].lines)

\* an emitted line classified by its first character
Classify(text) ==
    [type |-> IF startswith(text, "+") THEN "add"
              ELSE IF startswith(text, "-") THEN "delete"
              ELSE IF startswith(text, " ") THEN "context"
              ELSE None,
     content |-> From(text, 1)]

\* the loop is about to hand a line to the content rule, which will append it
ContentLineStep ==
    /\ Scanning
    /\ current_hunk # NoHunk
    /\ startswith(CurrentLine, "+") \/ startswith(CurrentLine, "-")
           \/ startswith(CurrentLine, " ")
    /\ ~startswith(CurrentLine, "+++ ")
    /\ ~startswith(CurrentLine, "--- ")

\* C17: for every FileDiff of the scan, format_diff emits for each hunk, in
\* order, a header line and then one line per Line, in order; the line
\* emitted for a Line classifies back to the Line's type and content, and
\* the line emitted for the Line a step has just appended is the input line
\* of that step, character for character.
C17_FormatRestoresLines ==
    /\ [](\A i \in 1..Len(files) :
              LET f == files[i]
                  out == Emitted(f)
              IN  /\ Len(out) = EmittedBefore(f, Len(f.hunks) + 1)
                  /\ \A k \in 1..Len(f.hunks) :
                         /\ out[EmittedBefore(f, k) + 1] = HunkText(f.hunks[k])
                         /\ \A j \in 1..Len(f.hunks[k].lines) :
                                Classify(out[EmittedBefore(f, k) + 1 + j]) =
                                    [type |-> f.hunks[k].lines[j].type,
                                     content |-> f.hunks[k].lines[j].content])
    /\ [][ContentLineStep =>
             LET out == Emitted(files'[current_hunk[1]])
             IN  out[Len(out)] = CurrentLine]_vars

\* a file with two hunks, the first with an add line and the second, whose
\* header gave no counts, with a delete line
C17_Witness ==
    \E i \in 1..Len(files) :
        /\ Len(files[i].hunks) = 2
        /\ Emitted(files[i]) = <<"@@ -1,2 +3,4 @@", "+a", "@@ -5,1 +7,1 @@", "-b">>

(***************************************************************************)
(* The search query.                                                       *)
(***************************************************************************)
\* a deleted line longer than a query
LongDelete == "-" \o Repeat("b", QUERY_LIMIT + 1)

\* hunks with an added empty line, an added and a deleted line of code, and
\* a long deleted line
QueryAlphabet == {"+++ b/x", "@@ -1 +1 @@", "+", "+a", "-b", LongDelete}

InitQuery == InitOn(Texts(QueryAlphabet, MaxLines))

SpecQuery == InitQuery /\ [][Next]_vars

\* the contents of ls, in order
ContentsOf(ls) == [k \in 1..Len(ls) |-> ls[k].content]

\* the contents of the entries of ls that are not blank, in order
RECURSIVE Dense(_)
Dense(cs) ==
    IF cs = <<>> THEN <<>>
    ELSE (IF \E i \in 1..Len(Head(cs)) : Slice(Head(cs), i, i) \notin Whitespace
          THEN <<Head(cs)>> ELSE <<>>) \o Dense(Tail(cs))

\* the first n characters of text
Cut(text, n) == IF Len(text) <= n THEN text ELSE SubSeq(text, 1, n)

\* C18 as stated: the query of every file is the contents of its added
\* lines joined by line breaks, or of its deleted lines when it has no added
\* line, cut to 500 characters.
C18_QueryOfAddedLines ==
    \A i \in 1..Len(files) :
        _build_search_query(files[i]) =
            Cut(join("\n", ContentsOf(IF added_lines(files[i]) # <<>>
                                      THEN added_lines(files[i])
                                      ELSE deleted_lines(files[i]))),
                QUERY_LIMIT)

\* C18 amended: the query of every file is the contents of its added lines
\* that are not blank, joined by line breaks, or of its deleted lines that
\* are not blank when no added line is left, cut to its first 500 characters.
C18_QueryOfNonBlankLines ==
    \A i \in 1..Len(files) :
        LET added == Dense(ContentsOf(added_lines(files[i])))
            deleted == Dense(ContentsOf(deleted_lines(files[i])))
        IN  /\ _build_search_query(files[i]) =
                   Cut(join("\n", IF added # <<>> THEN added ELSE deleted), QUERY_LIMIT)
            /\ Len(_build_search_query(files[i])) <= QUERY_LIMIT

\* a file whose one added line is empty and whose deleted line is longer
\* than a query: the query is the first 500 characters of the deleted line
C18_Witness ==
    \E i \in 1..Len(files) :
        /\ Len(added_lines(files[i])) = 1
        /\ Len(deleted_lines(files[i])) = 1
        /\ Len(deleted_lines(files[i])[1].content) > QUERY_LIMIT
        /\ _build_search_query(files[i]) = Repeat("b", QUERY_LIMIT)

(***************************************************************************)
(* The webhook of src/src/server.py.                                       *)
(***************************************************************************)
MaxTasks == 1

\* the values of a JSON body; Invalid is a body request.json() cannot decode
Null == [kind |-> "null"]
Int(n) == [kind |-> "int", int |-> n]
Str(s) == [kind |-> "str", str |-> s]
Dict(items) == [kind |-> "dict", items |-> items]
Invalid == [kind |-> "invalid"]

\* the dict of the <<key, value>> pairs, the keys being distinct
Items(pairs) ==
    [k \in {p[1] : p \in pairs} |-> (CHOOSE p \in pairs : p[1] = k)[2]]

\* d.get(key, default) of a dict d
get(d, key, default) == IF key \in DOMAIN d.items THEN d.items[key] ELSE default

\* "not v" of Python: None, 0 and the empty string and dict are false
Falsy(v) == v \in {Null, Int(0), Str(""), Dict(Items({}))}

\* the answers of the handler, with the tasks it adds to background_tasks
Answer(status_code, status) ==
    [response |-> [status_code |-> status_code, status |-> status], tasks |-> <<>>]

Accepted(project_id, mr_iid) ==
    [response |-> [status_code |-> 200, status |-> "accepted"],
     tasks |-> <<[project_id |-> project_id, mr_iid |-> mr_iid]>>]

\* the body of webhook after the token check: payload.get on a payload that
\* is no dict, and .get on an object_attributes or a project that is none,
\* raise, and the server answers 500
Route(body) ==
    IF body.kind # "dict" THEN Answer(500, None)
    ELSE IF get(body, "object_kind", Null) # Str("merge_request")
    THEN Answer(200, "ignored")
    ELSE LET attrs == get(body, "object_attributes", Dict(Items({}))) IN
         IF attrs.kind # "dict" THEN Answer(500, None)
         ELSE IF get(attrs, "action", Null) \notin {Str("open"), Str("update"), Str("reopen")}
         THEN Answer(200, "ignored")
         ELSE LET project == get(body, "project", Dict(Items({}))) IN
              IF project.kind # "dict" THEN Answer(500, None)
              ELSE LET project_id == get(project, "id", Null)
                       mr_iid == get(attrs, "iid", Null)
                   IN  IF Falsy(project_id) \/ Falsy(mr_iid) THEN Answer(400, None)
                       ELSE Accepted(project_id, mr_iid)

\* Handle with the check of the token made only when the header is there
Handle_AbsentTokenPasses(secret, x_gitlab_token, body) ==
    IF secret # "" /\ x_gitlab_token # None /\ x_gitlab_token # secret
    THEN Answer(401, None)
    ELSE Route(body)

\* webhook(request, background_tasks, x_gitlab_token) under settings.webhook_secret
Handle(secret, x_gitlab_token, body) ==
    IF secret # "" /\ x_gitlab_token # secret THEN Answer(401, None)
    ELSE Route(body)

\* the requests: the X-Gitlab-Token header (None when absent) and the body
Secrets == {"", "s3cret"}
Tokens == {None, "s3cret", "wrong"}

\* a key of a dict: absent, or present with one of the values
Optional(key, values) == {{}} \cup {{<<key, v>>} : v \in values}

AttributeDicts ==
    {Dict(Items(a \cup i)) :
        a \in Optional("action", {Str(x) : x \in {"open", "update", "reopen", "close"}}),
        i \in Optional("iid", {Int(0), Int(7)})}

ProjectDicts == {Dict(Items(i)) : i \in Optional("id", {Int(42)})}

Bodies ==
    {Invalid, Str("ping")}
    \cup {Dict(Items(k \cup a \cup q)) :
             k \in Optional("object_kind", {Str("merge_request"), Str("push")}),
             a \in Optional("object_attributes", {Null} \cup AttributeDicts),
             q \in Optional("project", {Null} \cup ProjectDicts)}

\* the server runs, no request handled; no thread is in parse_diff
InitServer ==
    /\ diff_text = <<>>
    /\ idx = 0
    /\ files = <<>>
    /\ current_file = 0
    /\ current_hunk = NoHunk
    /\ new_line_num = 0
    /\ pending_status = None
    /\ pc = "idle"
    /\ calls = <<>>
    /\ other = NoFrame
    /\ webhook_secret \in Secrets
    /\ request = NoRequest
    /\ response = NoResponse
    /\ background_tasks = <<>>
    /\ posted = <<>>
    /\ PipelineIdle

\* POST /webhook: the handler runs to its answer; the tasks it added run later
webhook ==
    \E x_gitlab_token \in Tokens, body \in Bodies :
        LET answer == Handle(webhook_secret, x_gitlab_token, body) IN
            /\ Len(background_tasks) + Len(posted) + Len(answer.tasks) <= MaxTasks
            /\ request' = [x_gitlab_token |-> x_gitlab_token, body |-> body]
            /\ response' = answer.response
            /\ background_tasks' = background_tasks \o answer.tasks
            /\ UNCHANGED <<webhook_secret, posted, parserVars, calls, other, pipelineVars>>

\* a background task runs run_review(project_id, mr_iid): it returns before
\* posting when the diff is empty, posts the review, or logs an exception
run_review ==
    \E k \in 1..Len(background_tasks) :
        \E outcome \in {"no_changes", "posted", "failed"} :
            /\ background_tasks' = SubSeq(background_tasks, 1, k - 1)
                                       \o SubSeq(background_tasks, k + 1, Len(background_tasks))
            /\ posted' = IF outcome = "posted" THEN Append(posted, background_tasks[k])
                         ELSE posted
            /\ UNCHANGED <<webhook_secret, request, response, parserVars, calls, other,
                           pipelineVars>>

NextServer == webhook \/ run_review

SpecServer == InitServer /\ [][NextServer]_vars

\* the payload of a merge request event
MergeRequestBody(action, project_id, mr_iid) ==
    Dict(Items({<<"object_kind", Str("merge_request")>>,
                <<"project", Dict(Items({<<"id", Int(project_id)>>}))>>,
                <<"object_attributes",
                  Dict(Items({<<"iid", Int(mr_iid)>>, <<"action", Str(action)>>}))>>}))

\* a request has been answered
HasResponse == response # NoResponse

\* a secret is configured and the token of the request is absent or another
BadToken == webhook_secret # "" /\ request.x_gitlab_token # webhook_secret

\* C19: under a configured secret the answer to a request whose token is
\* absent or differs is 401, whatever the body, and a step that adds a
\* background task handles a request that carries the secret; without a
\* configured secret no request is answered 401.
C19_BadTokenRejected ==
    /\ []((HasResponse /\ BadToken) => response.status_code = 401)
    /\ []((HasResponse /\ webhook_secret = "") => response.status_code # 401)
    /\ [][Len(background_tasks') > Len(background_tasks) =>
             (webhook_secret = "" \/ request'.x_gitlab_token = webhook_secret)]_vars

\* a merge request event without the token was answered 401 under a secret,
\* and no task was added
C19_Witness ==
    /\ webhook_secret = "s3cret"
    /\ request = [x_gitlab_token |-> None, body |-> MergeRequestBody("open", 42, 7)]
    /\ response.status_code = 401
    /\ background_tasks = <<>>
    /\ posted = <<>>

\* the dict d has the key, with a value other than null
Present(d, key) == key \in DOMAIN d.items /\ d.items[key] # Null

\* the body is an event of kind merge_request with action open, update or reopen
ReviewableEvent(body) ==
    /\ body.kind = "dict"
    /\ Present(body, "object_kind")
    /\ body.items["object_kind"] = Str("merge_request")
    /\ Present(body, "object_attributes")
    /\ body.items["object_attributes"].kind = "dict"
    /\ Present(body.items["object_attributes"], "action")
    /\ body.items["object_attributes"].items["action"]
           \in {Str("open"), Str("update"), Str("reopen")}

\* the body holds a project id and an MR iid
IdsPresent(body) ==
    /\ Present(body, "project")
    /\ body.items["project"].kind = "dict"
    /\ Present(body.items["project"], "id")
    /\ Present(body.items["object_attributes"], "iid")

\* run_review(project_id, mr_iid) for the ids of the body
TaskOf(body) ==
    [project_id |-> body.items["project"].items["id"],
     mr_iid |-> body.items["object_attributes"].items["iid"]]

\* C20: a request with a JSON object as body that passes the token check is
\* answered accepted, and one run_review task with its ids is added, if and
\* only if the body is a merge_request event with action open, update or
\* reopen that holds both ids; every other such request is answered ignored,
\* or 400 when an id is missing, and no step adds a task for it.
C20_AcceptedIffReviewable ==
    /\ []((HasResponse /\ ~BadToken /\ request.body.kind = "dict") =>
              IF ~ReviewableEvent(request.body)
              THEN response = [status_code |-> 200, status |-> "ignored"]
              ELSE IF ~IdsPresent(request.body)
              THEN response.status_code = 400
              ELSE response = [status_code |-> 200, status |-> "accepted"])
    /\ [][Len(background_tasks') > Len(background_tasks) =>
             /\ response'.status = "accepted"
             /\ background_tasks' = Append(background_tasks, TaskOf(request'.body))]_vars
    /\ [][(response'.status = "accepted"
              /\ Len(background_tasks') >= Len(background_tasks)) =>
             Len(background_tasks') = Len(background_tasks) + 1]_vars

(***************************************************************************)
(* GitLabClient.get_mr_diff_text of src/src/gitlab_client.py.              *)
(***************************************************************************)
\* one entry of "changes": the paths, the diff, and the flag the kind sets
Change(old_path, new_path, kind, diff) ==
    [old_path |-> old_path, new_path |-> new_path, diff |-> diff,
     new_file |-> kind = "new_file", deleted_file |-> kind = "deleted_file",
     renamed_file |-> kind = "renamed_file"]

\* the entries appended to diff_parts for one change
ChangeParts(change) ==
    IF change.diff = "" THEN <<>>
    ELSE <<"diff --git a/" \o change.old_path \o " b/" \o change.new_path>>
             \o (IF change.new_file
                 THEN <<"new file mode 100644", "--- /dev/null",
                        "+++ b/" \o change.new_path>>
                 ELSE IF change.deleted_file
                 THEN <<"deleted file mode 100644", "--- a/" \o change.old_path,
                        "+++ /dev/null">>
                 ELSE <<"--- a/" \o change.old_path, "+++ b/" \o change.new_path>>)
             \o <<change.diff>>

RECURSIVE diff_parts(_)
diff_parts(cs) ==
    IF cs = <<>> THEN <<>> ELSE ChangeParts(Head(cs)) \o diff_parts(Tail(cs))

get_mr_diff_text(cs) == join("\n", diff_parts(cs))

(***************************************************************************)
(* A review: run_review of src/src/server.py, Reviewer.review of           *)
(* src/src/reviewer.py and GitLabClient.post_review.  A step is a call of  *)
(* a collaborator (the GitLab API, the retriever, the LLM) with its        *)
(* outcome: it returns, or it raises.                                      *)
(***************************************************************************)
\* "not text.strip()" of a text that may hold line breaks
IsBlankText(text) ==
    \A i \in 1..Len(text) : Slice(text, i, i) \in Whitespace \cup {"\n"}

\* ReviewablePositions without the filter: every file is reviewed
RECURSIVE ReviewablePositions_All(_, _)
ReviewablePositions_All(fs, k) ==
    IF k > Len(fs) THEN <<>> ELSE <<k>> \o ReviewablePositions_All(fs, k + 1)

\* the positions in fs of the entries of reviewable_files, in order
RECURSIVE ReviewablePositions(_, _)
ReviewablePositions(fs, k) ==
    IF k > Len(fs) THEN <<>>
    ELSE (IF ~fs[k].is_binary /\ ~_should_skip(fs[k].filename) THEN <<k>> ELSE <<>>)
             \o ReviewablePositions(fs, k + 1)

ReviewComment(file, line, severity, message) ==
    [file |-> file, line |-> line, severity |-> severity, message |-> message]

\* the comments _parse_response builds from a reply of the LLM about a file:
\* none, one on a line, or one without a line (line 0) and one on a line
Replies(filename) ==
    {<<>>,
     <<ReviewComment(filename, 3, "warning", "m")>>,
     <<ReviewComment(filename, 0, "info", "m"), ReviewComment(filename, 5, "critical", "m")>>}

\* one call of a collaborator; file is the position in result.files of the
\* FileDiff the call is about, 0 when it is about none
Call(op, file) == [op |-> op, file |-> file]

\* the changes of the merge requests under review
ReviewChanges ==
    {<<>>,
     <<Change("x.py", "x.py", "modified", "")>>,
     <<Change("x.py", "x.py", "modified", "@@ -1 +1 @@\n-a\n+b\n")>>,
     <<Change("yarn.lock", "yarn.lock", "modified", "@@ -1 +1 @@\n+a\n"),
       Change("x.png", "x.png", "modified", "Binary files a/x.png and b/x.png differ\n"),
       Change("y.py", "y.py", "new_file", "@@ -0,0 +1 @@\n+a\n"),
       Change("z.py", "z.py", "deleted_file", "@@ -1 +0,0 @@\n-a\n")>>,
     <<Change("big.py", "big.py", "modified", LongHeader \o "\n+a\n")>>}

\* the webhook has accepted a merge request event, and its task waits
InitReview ==
    /\ diff_text = <<>>
    /\ idx = 0
    /\ files = <<>>
    /\ current_file = 0
    /\ current_hunk = NoHunk
    /\ new_line_num = 0
    /\ pending_status = None
    /\ pc = "idle"
    /\ calls = <<>>
    /\ other = NoFrame
    /\ webhook_secret = ""
    /\ request = [x_gitlab_token |-> None, body |-> MergeRequestBody("open", 42, 7)]
    /\ response = Accepted(Int(42), Int(7)).response
    /\ background_tasks = Accepted(Int(42), Int(7)).tasks
    /\ posted = <<>>
    /\ changes \in ReviewChanges
    /\ run = NoRun
    /\ review = NoReview
    /\ post = NoPost
    /\ trace = <<>>

\* the except clause of run_review: the exception is logged, run_review returns
Failed(r) == [r EXCEPT !.pc = "failed"]

\* FetchDiff without the test of a blank diff
FetchDiff_NoBlankCheck ==
    /\ run.pc = "idle"
    /\ background_tasks # <<>>
    /\ \E outcome \in {"no_client", "raises", "returns"} :
           /\ run' = [pc |-> IF outcome = "returns" THEN "review" ELSE "failed",
                      task |-> Head(background_tasks),
                      diff_text |-> IF outcome = "returns" THEN get_mr_diff_text(changes)
                                    ELSE "",
                      comments |-> <<>>]
           /\ trace' = IF outcome = "no_client" THEN trace
                       ELSE Append(trace, Call("get_mr_diff_text", 0))
    /\ background_tasks' = Tail(background_tasks)
    /\ UNCHANGED <<parserVars, calls, other, webhook_secret, request, response, posted,
                   changes, review, post>>

\* run_review starts: GitLabClient(), get_mr_diff_text, and the return on a
\* blank diff
FetchDiff ==
    /\ run.pc = "idle"
    /\ background_tasks # <<>>
    /\ \E outcome \in {"no_client", "raises", "returns"} :
           LET text == get_mr_diff_text(changes) IN
           /\ run' = [pc |-> IF outcome # "returns" THEN "failed"
                             ELSE IF IsBlankText(text) THEN "no_changes"
                             ELSE "review",
                      task |-> Head(background_tasks),
                      diff_text |-> IF outcome = "returns" THEN text ELSE "",
                      comments |-> <<>>]
           /\ trace' = IF outcome = "no_client" THEN trace
                       ELSE Append(trace, Call("get_mr_diff_text", 0))
    /\ background_tasks' = Tail(background_tasks)
    /\ UNCHANGED <<parserVars, calls, other, webhook_secret, request, response, posted,
                   changes, review, post>>

\* Reviewer() and the start of reviewer.review: parse_diff and the list of
\* reviewable files
BeginReview ==
    /\ run.pc = "review"
    /\ review.pc = "idle"
    /\ \E created \in BOOLEAN :
           LET s == ScanLines(Locals, split(run.diff_text, "\n")) IN
           IF ~created
           THEN /\ run' = Failed(run)
                /\ UNCHANGED <<review, trace>>
           ELSE /\ trace' = trace \o <<Call("Reviewer", 0), Call("review", 0)>>
                /\ IF s.pc = "raised"
                   THEN /\ run' = Failed(run)
                        /\ review' = [review EXCEPT !.pc = "raised"]
                   ELSE /\ run' = run
                        /\ review' = [pc |-> "loop", files |-> s.files,
                                      queue |-> ReviewablePositions(s.files, 1),
                                      i |-> 0, comments |-> <<>>,
                                      all_comments |-> <<>>]
    /\ UNCHANGED <<parserVars, calls, other, webhook_secret, request, response,
                   background_tasks, posted, changes, post>>

\* the next file of the loop of review
NextFile == review.files[review.queue[review.i + 1]]

\* a file without added and deleted lines is passed over
SkipFile ==
    /\ review.pc = "loop"
    /\ review.i < Len(review.queue)
    /\ added_lines(NextFile) = <<>> /\ deleted_lines(NextFile) = <<>>
    /\ review' = [review EXCEPT !.i = @ + 1]
    /\ UNCHANGED <<parserVars, calls, other, webhook_secret, request, response,
                   background_tasks, posted, changes, run, post, trace>>

\* _review_file: the query is built and the retriever is called
Search ==
    /\ review.pc = "loop"
    /\ review.i < Len(review.queue)
    /\ added_lines(NextFile) # <<>> \/ deleted_lines(NextFile) # <<>>
    /\ trace' = Append(trace, Call("search", review.queue[review.i + 1]))
    /\ \E ok \in BOOLEAN :
           IF ok THEN review' = [review EXCEPT !.pc = "llm"] /\ run' = run
           ELSE review' = [review EXCEPT !.pc = "raised"] /\ run' = Failed(run)
    /\ UNCHANGED <<parserVars, calls, other, webhook_secret, request, response,
                   background_tasks, posted, changes, post>>

\* _review_file: the prompt is built, the LLM is called, and the comments of
\* its reply are added to all_comments
CallLLM ==
    /\ review.pc = "llm"
    /\ trace' = Append(trace, Call("llm", review.queue[review.i + 1]))
    /\ \/ /\ review' = [review EXCEPT !.pc = "raised"]
          /\ run' = Failed(run)
       \/ \E comments \in Replies(NextFile.filename) :
              /\ review' = [review EXCEPT !.pc = "loop", !.i = @ + 1,
                                          !.comments = comments,
                                          !.all_comments = @ \o comments]
              /\ run' = run
    /\ UNCHANGED <<parserVars, calls, other, webhook_secret, request, response,
                   background_tasks, posted, changes, post>>

\* "return all_comments": run_review has the comments
EndReview ==
    /\ review.pc = "loop"
    /\ review.i = Len(review.queue)
    /\ review' = [review EXCEPT !.pc = "returned"]
    /\ run' = [run EXCEPT !.pc = "post_review", !.comments = review.all_comments]
    /\ UNCHANGED <<parserVars, calls, other, webhook_secret, request, response,
                   background_tasks, posted, changes, post, trace>>

\* one POST to the discussions of the merge request: an inline comment with
\* a position (the comment-th entry of comments), the "no issues" comment, or
\* the summary of the comments; ok when the API answered without error
Post(kind, comment, ok) == [kind |-> kind, comment |-> comment, ok |-> ok]

\* the status of an answer that raise_for_status turns into HTTPStatusError
STATUS_ERROR == 400

\* the frame of post_review after "result = {...}"
PostFrame(comments) ==
    [pc |-> "start", comments |-> comments, i |-> 0, sha_info |-> None,
     result |-> NoResult, posts |-> <<>>]

\* post_review returns its result to run_review, or raises into its except
PostReturns(p) == [p EXCEPT !.pc = "returned", !.result.posted_summary = TRUE]
PostRaises(p) == [p EXCEPT !.pc = "raised"]

\* post_review(project_id, mr_iid, []): the "no issues" comment
PostNoIssues ==
    /\ run.pc = "post_review"
    /\ post.pc = "idle"
    /\ run.comments = <<>>
    /\ trace' = Append(trace, Call("post_review", 0))
    /\ posted' = Append(posted, run.task)
    /\ \E ok \in BOOLEAN :
           LET p == [PostFrame(run.comments) EXCEPT
                        !.posts = Append(@, Post("no_issues", 0, ok))]
           IN  IF ok THEN post' = PostReturns(p) /\ run' = [run EXCEPT !.pc = "done"]
               ELSE post' = PostRaises(p) /\ run' = Failed(run)
    /\ UNCHANGED <<parserVars, calls, other, webhook_secret, request, response,
                   background_tasks, changes, review>>

\* post_review with comments: _get_latest_sha gives the SHAs, or None when
\* the MR has no version or the API answers with an error status, or raises
GetLatestSha ==
    /\ run.pc = "post_review"
    /\ post.pc = "idle"
    /\ run.comments # <<>>
    /\ trace' = Append(trace, Call("post_review", 0))
    /\ posted' = Append(posted, run.task)
    /\ \/ \E sha_info \in {None, "sha"} :
              /\ post' = [PostFrame(run.comments) EXCEPT !.pc = "inline",
                                                         !.sha_info = sha_info]
              /\ run' = run
       \/ /\ post' = PostRaises(PostFrame(run.comments))
          /\ run' = Failed(run)
    /\ UNCHANGED <<parserVars, calls, other, webhook_secret, request, response,
                   background_tasks, changes, review>>

\* the comment of the loop of post_review
NextComment == post.comments[post.i + 1]

\* PostInline with the loop left at the first inline post that fails
PostInline_StopsAtError ==
    /\ post.pc = "inline"
    /\ post.i < Len(post.comments)
    /\ post.sha_info # None /\ NextComment.line > 0
    /\ \E outcome \in {"ok", "status_error", "raises"} :
           LET p == [post EXCEPT !.posts = Append(@, Post("inline", post.i + 1,
                                                          outcome = "ok"))]
           IN  /\ post' =
                      IF outcome = "ok"
                      THEN [p EXCEPT !.i = @ + 1, !.result.posted_inline = @ + 1]
                      ELSE IF outcome = "status_error"
                      THEN [p EXCEPT !.i = Len(post.comments),
                                     !.result.errors =
                                         Append(@, [file |-> NextComment.file,
                                                    line |-> NextComment.line,
                                                    status_code |-> STATUS_ERROR])]
                      ELSE PostRaises(p)
               /\ run' = IF outcome = "raises" THEN Failed(run) ELSE run
    /\ UNCHANGED <<parserVars, calls, other, webhook_secret, request, response,
                   background_tasks, posted, changes, review, trace>>

\* one inline comment is posted: the API takes it, answers with an error
\* status (recorded in errors), or the call raises another exception
PostInline ==
    /\ post.pc = "inline"
    /\ post.i < Len(post.comments)
    /\ post.sha_info # None /\ NextComment.line > 0
    /\ \E outcome \in {"ok", "status_error", "raises"} :
           LET p == [post EXCEPT !.posts = Append(@, Post("inline", post.i + 1,
                                                          outcome = "ok"))]
           IN  /\ post' =
                      IF outcome = "ok"
                      THEN [p EXCEPT !.i = @ + 1, !.result.posted_inline = @ + 1]
                      ELSE IF outcome = "status_error"
                      THEN [p EXCEPT !.i = @ + 1,
                                     !.result.errors =
                                         Append(@, [file |-> NextComment.file,
                                                    line |-> NextComment.line,
                                                    status_code |-> STATUS_ERROR])]
                      ELSE PostRaises(p)
               /\ run' = IF outcome = "raises" THEN Failed(run) ELSE run
    /\ UNCHANGED <<parserVars, calls, other, webhook_secret, request, response,
                   background_tasks, posted, changes, review, trace>>

\* a comment without a line, or any comment when the SHAs are unknown, is
\* left to the summary
SkipInline ==
    /\ post.pc = "inline"
    /\ post.i < Len(post.comments)
    /\ post.sha_info = None \/ NextComment.line <= 0
    /\ post' = [post EXCEPT !.i = @ + 1]
    /\ UNCHANGED <<parserVars, calls, other, webhook_secret, request, response,
                   background_tasks, posted, changes, run, review, trace>>

\* the summary comment, and the return of post_review to run_review
PostSummary ==
    /\ post.pc = "inline"
    /\ post.i = Len(post.comments)
    /\ \E ok \in BOOLEAN :
           LET p == [post EXCEPT !.posts = Append(@, Post("summary", 0, ok))]
           IN  IF ok THEN post' = PostReturns(p) /\ run' = [run EXCEPT !.pc = "done"]
               ELSE post' = PostRaises(p) /\ run' = Failed(run)
    /\ UNCHANGED <<parserVars, calls, other, webhook_secret, request, response,
                   background_tasks, posted, changes, review, trace>>

NextReview ==
    \/ FetchDiff \/ BeginReview \/ SkipFile \/ Search \/ CallLLM \/ EndReview
    \/ PostNoIssues \/ GetLatestSha \/ PostInline \/ SkipInline \/ PostSummary

SpecReview == InitReview /\ [][NextReview]_vars

(***************************************************************************)
(* The order of the steps of run_review.                                   *)
(***************************************************************************)
\* the calls run_review makes itself, in the order of its code
RunSteps == <<"get_mr_diff_text", "Reviewer", "review", "post_review">>

\* the calls of the trace that run_review has made itself
RunOps ==
    SelectSeq([k \in 1..Len(trace) |-> trace[k].op],
              LAMBDA op : \E n \in 1..Len(RunSteps) : RunSteps[n] = op)

\* a is the start of b
IsPrefix(a, b) == Len(a) <= Len(b) /\ SubSeq(b, 1, Len(a)) = a

\* run_review has returned: after a blank diff, after the post, or from its
\* except clause
RunOver == run.pc \in {"no_changes", "done", "failed"}

\* C21: the calls run_review makes are, in order and each at most once,
\* get_mr_diff_text, Reviewer, review and post_review, each made only after
\* the one before it has returned; after a blank diff run_review returns with
\* no Reviewer created and nothing posted; post_review gets the comments
\* review returned; an exception of a step takes run_review to its except
\* clause, from where it returns, and after its return no step is made.
C21_RunReviewOrder ==
    /\ [](IsPrefix(RunOps, RunSteps))
    /\ [](run.pc \in {"idle", "review", "post_review", "no_changes", "done", "failed"})
    /\ [](Len(RunOps) >= 2 =>
              /\ run.diff_text = get_mr_diff_text(changes)
              /\ ~IsBlankText(run.diff_text))
    /\ [](Len(RunOps) = 4 =>
              /\ review.pc = "returned"
              /\ post.comments = review.all_comments
              /\ posted = <<run.task>>)
    /\ [](Len(RunOps) < 4 => post = NoPost /\ posted = <<>>)
    /\ [](Len(RunOps) < 2 => review = NoReview)
    /\ [](run.pc = "no_changes" =>
              IsBlankText(run.diff_text) /\ RunOps = <<"get_mr_diff_text">>)
    /\ []((run.pc \notin {"idle", "failed"} /\ IsBlankText(run.diff_text)) =>
              run.pc = "no_changes")
    /\ []((review.pc = "raised" \/ post.pc = "raised") => run.pc = "failed")
    /\ [](run.pc = "done" => post.pc = "returned")
    /\ [][RunOver => UNCHANGED <<pipelineVars, posted>>]_vars

\* a run with all four calls has returned after posting two comments, and
\* the trace holds the calls for one file between review and post_review
C21_Witness ==
    /\ run.pc = "done"
    /\ RunOps = RunSteps
    /\ Len(post.comments) = 2
    /\ [k \in 1..Len(trace) |-> trace[k].op] =
           <<"get_mr_diff_text", "Reviewer", "review", "search", "llm", "post_review">>

(***************************************************************************)
(* The posts of post_review.                                               *)
(***************************************************************************)
\* the positions of the posts of ps that are inline posts
InlinePosts(ps) == {k \in 1..Len(ps) : ps[k].kind = "inline"}

\* the comments of cs an inline post is attempted for, given the SHAs
Attempted(cs, sha_info) == {n \in 1..Len(cs) : sha_info # None /\ cs[n].line > 0}

\* the members of the set S of numbers, in increasing order
RECURSIVE Ascending(_)
Ascending(S) == IF S = {} THEN <<>> ELSE <<Min(S)>> \o Ascending(S \ {Min(S)})

MaxChanges == 2

\* the diffs of a change: none, a changed line, and a hunk whose lines, after
\* their markers, read "-- a/q" and "++ i;"
ChangeDiffs == {"", "@@ -1 +1 @@\n-a\n+b\n", "@@ -1,2 +1,2 @@\n--- a/q\n+++ i;\n"}

ChangeAlphabet ==
    {Change("x.py", "x.py", kind, diff) :
         kind \in {"modified", "new_file", "deleted_file"}, diff \in ChangeDiffs}
    \cup {Change("o.py", "x.py", "renamed_file", diff) : diff \in ChangeDiffs}

\* the lists of at most n changes
ChangeLists(n) == UNION {[1..k -> ChangeAlphabet] : k \in 0..n}

\* a caller holds the changes of a merge request; no text is parsed yet
InitChanges ==
    /\ diff_text = <<>>
    /\ idx = 0
    /\ files = Locals.files
    /\ current_file = Locals.current_file
    /\ current_hunk = Locals.current_hunk
    /\ new_line_num = Locals.new_line_num
    /\ pending_status = Locals.pending_status
    /\ pc = "idle"
    /\ calls = <<>>
    /\ other = NoFrame
    /\ webhook_secret = ""
    /\ request = NoRequest
    /\ response = NoResponse
    /\ background_tasks = <<>>
    /\ posted = <<>>
    /\ changes \in ChangeLists(MaxChanges)
    /\ run = NoRun
    /\ review = NoReview
    /\ post = NoPost
    /\ trace = <<>>

\* get_mr_diff_text returns the text, and parse_diff is called with it
ConvertChanges ==
    /\ pc = "idle"
    /\ diff_text' = split(get_mr_diff_text(changes), "\n")
    /\ pc' = "loop"
    /\ trace' = Append(trace, Call("get_mr_diff_text", 0))
    /\ UNCHANGED <<idx, files, current_file, current_hunk, new_line_num, pending_status,
                   calls, other, webhook_secret, request, response, background_tasks,
                   posted, changes, run, review, post>>

NextChanges == ConvertChanges \/ ProcessLine \/ Return

SpecChanges == InitChanges /\ [][NextChanges]_vars

\* the changes of cs that have a diff, in order
RECURSIVE WithDiff(_)
WithDiff(cs) ==
    IF cs = <<>> THEN <<>>
    ELSE (IF Head(cs).diff # "" THEN <<Head(cs)>> ELSE <<>>) \o WithDiff(Tail(cs))

\* C23: when the text made of the changes is parsed, files holds one FileDiff
\* per change with a diff, in the order of the changes: added for a new_file
\* change, deleted for a deleted_file change and modified otherwise, named by
\* the path of the change.
C23_OneFilePerChange ==
    pc = "returned" =>
        LET live == WithDiff(changes) IN
        /\ Len(files) = Len(live)
        /\ \A k \in 1..Len(live) :
               /\ files[k].status = IF live[k].new_file THEN "added"
                                    ELSE IF live[k].deleted_file THEN "deleted"
                                    ELSE "modified"
               /\ files[k].filename = IF live[k].deleted_file THEN live[k].old_path
                                      ELSE live[k].new_path

(***************************************************************************)
(* The calls of Reviewer.review.                                           *)
(***************************************************************************)
\* the positions of the files of fs review has to look at: not binary, no
\* skip pattern, and a Line of type add or delete in some hunk
Due(fs) ==
    {i \in Eligible(fs) :
        \E p \in LinesAt(fs, "add") \cup LinesAt(fs, "delete") : p[1] = i}

\* the calls of the retriever and of the LLM for the files at the positions
RECURSIVE FileCalls(_)
FileCalls(positions) ==
    IF positions = <<>> THEN <<>>
    ELSE <<Call("search", Head(positions)), Call("llm", Head(positions))>>
             \o FileCalls(Tail(positions))

\* the calls of the retriever and of the LLM that the trace holds
ReviewCalls == SelectSeq(trace, LAMBDA c : c.op \in {"search", "llm"})

\* C24: the calls review makes are, for each file that is neither binary nor
\* skipped and has an added or a deleted line, in parse order, one call of
\* the retriever followed by one call of the LLM, and no other call: at every
\* moment a start of that sequence, and all of it when review returns; each
\* reply of the LLM extends all_comments at its end, and all_comments is
\* what review returns.
C24_ReviewCalls ==
    /\ [](review.pc # "idle" =>
              IsPrefix(ReviewCalls, FileCalls(Ascending(Due(review.files)))))
    /\ [](review.pc = "returned" =>
              /\ ReviewCalls = FileCalls(Ascending(Due(review.files)))
              /\ run.comments = review.all_comments)
    /\ [](review.pc = "idle" => ReviewCalls = <<>>)
    /\ [][review'.all_comments # review.all_comments =>
             /\ review.pc = "llm"
             /\ trace' = Append(trace, Call("llm", review.queue[review.i + 1]))
             /\ review'.comments \in Replies(NextFile.filename)
             /\ review'.all_comments = review.all_comments \o review'.comments]_vars
    /\ [][(review.pc = "llm" /\ review'.pc = "loop") =>
             review'.all_comments = review.all_comments \o review'.comments]_vars

\* review has returned from five files (a lock file, a file without lines, a
\* binary file, a new and a deleted file) after the calls for the new and for
\* the deleted file, with one comment for the first and two for the second
C24_Witness ==
    /\ review.pc = "returned"
    /\ Len(review.files) = 5
    /\ review.files[1].filename = "yarn.lock"
    /\ review.files[3].is_binary
    /\ ReviewCalls = <<Call("search", 4), Call("llm", 4), Call("search", 5), Call("llm", 5)>>
    /\ [k \in 1..Len(review.all_comments) |-> review.all_comments[k].file] =
           <<"y.py", "z.py", "z.py">>

(***************************************************************************)
(* The open hunk and the open file.                                        *)
(***************************************************************************)
\* C25: whenever current_hunk is set it is the last hunk of current_file,
\* and current_file is the FileDiff constructed last; so a step changes no
\* FileDiff but that one, and once a later FileDiff is constructed (or a
\* "diff --git" line has closed the file) no Line is appended to a hunk of
\* an earlier one.
C25_OpenHunkInOpenFile ==
    /\ [](current_hunk # NoHunk =>
              /\ current_hunk[1] = current_file
              /\ current_hunk[2] = Len(files[current_file].hunks))
    /\ [](current_file # 0 => current_file = Len(files))
    /\ [][\A i \in 1..Len(files) :
              files'[i] # files[i] => (i = Len(files) /\ i = current_file)]_vars

(***************************************************************************)
(* The pending status after the construction of a FileDiff.                *)
(***************************************************************************)
\* the lines consumed so far at which a FileDiff was constructed, in order:
\* the k-th of them constructed files[k]
Constructions ==
    Ascending({k \in 1..idx :
                   Len(ScanLines(Locals, SubSeq(diff_text, 1, k)).files) >
                       Len(ScanLines(Locals, SubSeq(diff_text, 1, k - 1)).files)})

\* the lines before line k that are status markers
MarkersBefore(k) ==
    {j \in 1..(k - 1) :
        startswith(diff_text[j], "new file") \/ startswith(diff_text[j], "deleted file")}

\* C26: a status marker determines the status of at most one FileDiff: a
\* FileDiff constructed by a "+++" line with no status marker between the
\* construction before it and its own line has status modified, whether or
\* not a "diff --git" line separates the two.
C26_StatusConsumed ==
    \A n \in 2..Len(files) :
        LET k == Constructions[n]
            before == Constructions[n - 1]
        IN  (startswith(diff_text[k], "+++ ")
                /\ \A j \in MarkersBefore(k) : j < before)
            => files[n].status = "modified"

(***************************************************************************)
(* Lines shaped like a hunk header that open no hunk.                      *)
(***************************************************************************)
\* headers with a field that is no number, with a field missing, and a
\* header as git writes it; the lines that open a file and fill a hunk
MalformedAlphabet ==
    {"diff --git a/x b/x", "+++ b/x", "@@ -1,2 +3,4 @@", "@@ -x,y +z @@",
     "@@ -,2 +3 @@", "+a"}

InitMalformed == InitOn(Texts(MalformedAlphabet, MaxLines))

SpecMalformed == InitMalformed /\ [][Next]_vars

\* the numerals of the headers of the alphabet
HeaderNumerals == {"1", "2", "3", "4"}

\* line starts with "@@ -O[,OC] +N[,NC] @@" for numerals O, OC, N, NC
WellFormedHeader(line) ==
    \E o \in HeaderNumerals :
        /\ startswith(line, "@@ -" \o o)
        /\ \E oc \in {""} \cup {"," \o c : c \in HeaderNumerals} :
               /\ startswith(line, "@@ -" \o o \o oc \o " +")
               /\ \E n \in HeaderNumerals :
                      /\ startswith(line, "@@ -" \o o \o oc \o " +" \o n)
                      /\ \E nc \in {""} \cup {"," \o c : c \in HeaderNumerals} :
                             startswith(line, "@@ -" \o o \o oc \o " +" \o n \o nc \o " @@")

\* the line starts like a hunk header and opens no hunk in the scanning
\* state s: its fields are not as required, or no file is open
OpensNoHunk(s, line) ==
    /\ startswith(line, "@@")
    /\ ~WellFormedHeader(line) \/ s.current_file = 0

\* lines without its entries that open no hunk when scanned from s
RECURSIVE WithoutIgnored(_, _)
WithoutIgnored(s, lines) ==
    IF lines = <<>> THEN <<>>
    ELSE (IF OpensNoHunk(s, Head(lines)) THEN <<>> ELSE <<Head(lines)>>)
             \o WithoutIgnored(LoopBody(s, Head(lines)), Tail(lines))

\* C27: a step on a line that starts like a hunk header and has fields that
\* are not numbers or are missing, or on a hunk header while no file is
\* open, changes nothing of the scanning state (files and their hunks, the
\* open file, the open hunk, the counter, the pending status) and raises
\* nothing; the state reached after any number of lines is the state reached
\* on the same lines without those.
C27_IgnoredHeaderLines ==
    /\ [][(Scanning /\ OpensNoHunk(Scan, CurrentLine)) =>
             UNCHANGED <<files, current_file, current_hunk, new_line_num,
                         pending_status, pc>>]_vars
    /\ [](pc # "raised")
    /\ [](Scan = [ScanLines(Locals, WithoutIgnored(Locals, SubSeq(diff_text, 1, idx)))
                     EXCEPT !.pc = pc])

\* a header was seen before any file, and in the hunk opened later a line
\* with fields that are no numbers came before an added line, which the
\* hunk holds with the number the counter had
C27_Witness ==
    /\ pc = "returned"
    /\ diff_text = <<"@@ -1,2 +3,4 @@", "+++ b/x", "@@ -1,2 +3,4 @@", "@@ -x,y +z @@", "+a">>
    /\ Len(files) = 1
    /\ Len(files[1].hunks) = 1
    /\ files[1].hunks[1].lines = <<Line(3, "a", "add")>>

(***************************************************************************)
(* The integers of a hunk header.                                          *)
(***************************************************************************)
\* headers with and without counts, with counts of zero, with leading
\* zeros, and with text after the closing "@@"
HeaderAlphabet ==
    {"+++ b/x", "@@ -1,2 +3,4 @@", "@@ -5 +7 @@ def f():", "@@ -10,0 +0,0 @@",
     "@@ -007,08 +9 @@", "@@ -1 +2,3 @@"}

InitHeader == InitOn(Texts(HeaderAlphabet, MaxLines))

SpecHeader == InitHeader /\ [][Next]_vars

\* the integers a header can hold, and the ways to write a count: omitted
\* (the count is then 1), or a comma and the integer
WrittenNumbers == 0..10

WrittenCounts ==
    {[text |-> "", count |-> 1]}
    \cup {[text |-> "," \o str(c), count |-> c] : c \in WrittenNumbers}

\* the step appends to the open file the Hunk h, without lines, makes it the
\* open hunk and sets the counter to its new_start
OpensHunk(h) ==
    /\ files' = [files EXCEPT ![current_file].hunks = Append(@, [h EXCEPT !.lines = <<>>])]
    /\ current_hunk' = <<current_file, Len(files[current_file].hunks) + 1>>
    /\ new_line_num' = h.new_start

\* C28: while a file is open, a step on a line that starts with
\* "@@ -O[,OC] +N[,NC] @@", the four integers written in decimal, opens a hunk
\* with old_start O and new_start N, with old_count OC and new_count NC where
\* they are written, a written 0 included, and with the count 1 where the
\* comma and the count are omitted; leading zeros do not change the integer.
C28_HeaderIntegers ==
    [][(Scanning /\ current_file # 0) =>
          /\ \A o \in WrittenNumbers :
                 startswith(CurrentLine, "@@ -" \o str(o)) =>
                 \A oc \in WrittenCounts :
                     startswith(CurrentLine, "@@ -" \o str(o) \o oc.text \o " +") =>
                     \A n \in WrittenNumbers, nc \in WrittenCounts :
                         startswith(CurrentLine, "@@ -" \o str(o) \o oc.text \o " +"
                                                     \o str(n) \o nc.text \o " @@") =>
                         OpensHunk([old_start |-> o, old_count |-> oc.count,
                                    new_start |-> n, new_count |-> nc.count,
                                    lines |-> <<>>])
          /\ CurrentLine = "@@ -007,08 +9 @@" =>
                 OpensHunk([old_start |-> 7, old_count |-> 8, new_start |-> 9,
                            new_count |-> 1, lines |-> <<>>])]_vars

\* a file with a hunk of written counts 0 and new_start 0, and a hunk whose
\* header wrote no count
C28_Witness ==
    \E i \in 1..Len(files) :
        /\ \E k \in 1..Len(files[i].hunks) :
               files[i].hunks[k] = [old_start |-> 10, old_count |-> 0, new_start |-> 0,
                                    new_count |-> 0, lines |-> <<>>]
        /\ \E k \in 1..Len(files[i].hunks) :
               files[i].hunks[k] = [old_start |-> 5, old_count |-> 1, new_start |-> 7,
                                    new_count |-> 1, lines |-> <<>>]

(***************************************************************************)
(* The declared counts of a hunk.                                          *)
(***************************************************************************)
\* the prefixes of the rules that come before the hunk header rule
HeaderPrefixes ==
    {"diff --git", "new file", "deleted file", BINARY_MARKER, "--- ", "+++ ", "index "}

\* the loop is about to process a line with a content marker that no rule
\* before the content rule takes, while a hunk is open
MarkedLineInHunk ==
    /\ Scanning
    /\ current_hunk # NoHunk
    /\ \E c \in {"+", "-", " "} : startswith(CurrentLine, c)
    /\ \A q \in HeaderPrefixes : ~startswith(CurrentLine, q)

\* the type the marker of the line stands for
MarkerType(line) ==
    IF startswith(line, "+") THEN "add"
    ELSE IF startswith(line, "-") THEN "delete"
    ELSE "context"

\* the hunk at the place p of files holds more add and context lines than
\* its new_count and more delete and context lines than its old_count
Overfull(p) ==
    LET h == files[p[1]].hunks[p[2]]
        typed(T) == Cardinality({k \in 1..Len(h.lines) : h.lines[k].type \in T})
    IN  /\ typed({"add", "context"}) > h.new_count
        /\ typed({"delete", "context"}) > h.old_count

\* C29: while a hunk is open, every line with a marker that no earlier rule
\* takes is appended to that hunk, whatever the counts of its header and the
\* lines it holds already; the open hunk changes only at a hunk header or a
\* "diff --git" line.
C29_CountsDoNotBound ==
    /\ [][MarkedLineInHunk =>
             /\ files' = [files EXCEPT
                    ![current_hunk[1]].hunks[current_hunk[2]].lines =
                        Append(@, [number |-> new_line_num,
                                   content |-> From(CurrentLine, 1),
                                   type |-> MarkerType(CurrentLine)])]
             /\ current_hunk' = current_hunk]_vars
    /\ [][current_hunk' # current_hunk =>
             \/ startswith(CurrentLine, "diff --git") /\ current_hunk' = NoHunk
             \/ startswith(CurrentLine, "@@ -") /\ current_file # 0]_vars

\* a hunk whose header declares one old and one new line holds an added, a
\* context and a deleted line
C29_Witness ==
    \E p \in HunksOf(files) :
        /\ files[p[1]].hunks[p[2]].new_count = 1
        /\ files[p[1]].hunks[p[2]].old_count = 1
        /\ Len(files[p[1]].hunks[p[2]].lines) = 3
        /\ Overfull(p)

(***************************************************************************)
(* A text followed by a file section.                                      *)
(***************************************************************************)
\* lines that leave a pending status, an open file, an open hunk and an
\* advanced counter, and lines whose records would show them
ConcatAlphabet ==
    {"diff --git a/x b/x", "new file mode 100644", "--- a/x", "+++ b/x",
     "@@ -1 +3 @@", "+a"}

InitConcat == InitOn(Texts(ConcatAlphabet, MaxLines))

SpecConcat == InitConcat /\ [][Next]_vars

\* the places k of the text where a text A of k lines ends and a text B that
\* starts with a "diff --git" line begins, B being consumed up to idx
Cuts == {k \in 1..(idx - 1) : startswith(diff_text[k + 1], "diff --git")}

\* C30: for every cut of the text into A and B, B starting with a
\* "diff --git" line, the files built so far are the files of A parsed alone
\* followed by the files of the consumed part of B parsed alone, at every
\* moment of the scan and at the return; so the files of A + newline + B
\* are those of A followed by those of B.
C30_ConcatenationSplits ==
    /\ \A k \in Cuts :
           files = parse_diff(SubSeq(diff_text, 1, k))
                       \o parse_diff(SubSeq(diff_text, k + 1, idx))
    /\ pc = "returned" =>
           \A k \in 1..(Len(diff_text) - 1) :
               startswith(diff_text[k + 1], "diff --git") =>
                   files = parse_diff(SubSeq(diff_text, 1, k))
                               \o parse_diff(SubSeq(diff_text, k + 1, Len(diff_text)))

\* A has left a pending status, an open file, an open hunk and the counter
\* at 3; B is a section of a modified file
C30_Witness ==
    /\ pc = "returned"
    /\ diff_text = <<"new file mode 100644", "+++ b/x", "@@ -1 +3 @@",
                     "diff --git a/x b/x", "+++ b/x">>
    /\ Len(files) = 2
    /\ files[1].status = "added" /\ Len(files[1].hunks) = 1
    /\ files[2] = FileDiff("x", "modified", FALSE)

====
